---- MODULE Spec2Model ----
(***************************************************************************)
(* seekr: local hybrid code search.  Model of the ModTimeCache             *)
(* (cache/mod.rs), the lexical Indexer runs (indexer/mod.rs, main.rs),     *)
(* the VectorStore (vector_store/mod.rs) and the HybridRanker              *)
(* (ranker/mod.rs).                                                        *)
(***************************************************************************)
EXTENDS Integers, Sequences, FiniteSets, TLC

\* ------------------------------------------------------------------ bounds
\* The wall clock of the modelled file system runs from 1 to MaxTime seconds.
MaxTime == 3
\* Number of `index` / `init` commands issued in one behaviour.
MaxRuns == 3
\* Number of VectorStore::add calls in one behaviour.
MaxAdds == 4
\* Longest result list handed to fuse, and largest `limit`.
MaxLen == 2
MaxLimit == 2
\* debounce_ms counted in ticks of the watcher's clock.
DebounceTicks == 2
\* Most events waiting in the watcher's channel, and events sent in all.
MaxChan == 2
MaxEvents == 4
\* Longest file content handed to the chunker, in bytes.
MaxContent == 60
\* Most files handed to one index_files call, most chunks of one file.
MaxFiles == 2
MaxChunksPerFile == 33

\* ------------------------------------------------------- the indexed tree
\* Four files of the indexed directory, in walker order.
PathSeq == <<"a.rs", "b.py", "c.json", "d.txt">>
Paths == {PathSeq[i] : i \in 1..Len(PathSeq)}
\* Path::extension() of each of them.
Ext == [p \in Paths |->
          CASE p = "a.rs" -> "rs" [] p = "b.py" -> "py"
            [] p = "c.json" -> "json" [] OTHER -> "txt"]
\* Files whose bytes are not valid UTF-8: fs::read_to_string fails on them.
NonUtf8 == {"c.json"}

\* The extension match of index_directory / index_directory_incremental.
Language(ext) ==
  CASE ext = "rs" -> "rust"
    [] ext = "py" -> "python"
    [] ext \in {"ts", "tsx"} -> "typescript"
    [] ext \in {"js", "jsx"} -> "javascript"
    [] ext = "go" -> "go"
    [] ext = "java" -> "java"
    [] ext \in {"c", "h"} -> "c"
    [] ext \in {"cpp", "hpp", "cc"} -> "cpp"
    [] ext = "rb" -> "ruby"
    [] ext = "md" -> "markdown"
    [] ext = "toml" -> "toml"
    [] ext \in {"yaml", "yml"} -> "yaml"
    [] ext = "json" -> "json"
    [] OTHER -> "skip"

Supported(p) == Language(Ext[p]) # "skip"

VARIABLES
  \* --- file system of the indexed directory
  now,        \* wall clock, whole seconds
  fs,         \* path -> [exists, mtime, content]; mtime < 0 is before the epoch
  \* --- ~/.seekr
  cacheDisk,  \* file_cache.json: the persisted FileCache.files map
  idx,        \* committed documents of the lexical index, oldest first
  \* --- the running index/init command (the last one, when pc = "idle")
  pc,         \* "idle" or the position inside the command
  mode,       \* "incr", "force" or "init"
  pos,        \* position of the walker in PathSeq
  files,      \* FileCache.files of the loaded cache (file_cache)
  writer,     \* documents added to the IndexWriter, not yet committed
  cur,        \* the file read by the incremental walk, not yet recorded
  stats,      \* IndexStats.files_indexed, skipped_files, and the command's context
  \* --- history
  runs,       \* number of commands started
  changed,    \* files created, written or deleted since the last command started
  \* --- a caller of the FileCache alone
  calls,      \* its last three check_file / update_file calls since the last
              \* file system change
  \* --- the VectorStore and its directory
  store,      \* "open", "saving" (inside save, vectors file written) or "closed"
  index,      \* the usearch index in memory: key -> the vector's chunk
  capacity,   \* index.capacity()
  metadata,   \* Vec<ChunkMetadata>: the chunk each row describes
  vectorsFile,   \* vectors.usearch
  metadataFile,  \* metadata.json
  addlog,     \* the add calls on the store since it was opened or cleared
  fresh,      \* the store was opened on an empty directory (or cleared)
  chunks,     \* number of chunks handed to add so far
  \* --- one call of HybridRanker::fuse
  config,     \* HybridConfig: alpha, rrf_k, use_rrf
  lexical,    \* lexical_results
  semantic,   \* semantic_results
  limit,      \* limit
  ranked,     \* "index" before anything was indexed, "input" before the
              \* call, "done" after it
  fused,      \* the returned Vec<RankedResult>
  walk_root,  \* the directory given to `index`, as path components; <<>>
              \* where no directory was indexed
  \* --- FileWatcher::watch
  wpc,           \* "off", "recv" (inside rx.recv_timeout) or "reindex"
  chan,          \* events sent by the notify callback, not yet received
  pending_files, \* pending_files
  sinceRecv,     \* ticks since the current recv_timeout call began
  sinceIndex,    \* last_index_time.elapsed(), counted up to DebounceTicks
  \* --- history of the watcher
  sent,          \* number of events sent
  sinceSent,     \* ticks since the last event was sent, up to DebounceTicks
  sinceIndexable,\* ticks since the last event the watcher accepts was sent
  startsSince,   \* reindex runs started since that event was sent, up to 2
  split,         \* a reindex started between two accepted events less than
                 \* DebounceTicks apart
  startGap,      \* sinceSent when the last reindex started
  seen,          \* paths of the Create/Modify/Remove events received since
                 \* pending_files was last cleared
  \* --- one call of Chunker::chunk_file
  chunker,       \* the Chunker: max_chunk_size, overlap_ratio
  file_path,     \* file_path
  text,          \* content, a sequence of bytes that is valid UTF-8
  parse,         \* what tree-sitter answers: ok and the nodes of the tree in
                 \* the order extract_chunks_recursive visits them, or not ok
  overflow_checks, \* the build panics on integer overflow (debug profile)
  chpc,          \* "input" before the call, "done" after it
  outcome,       \* "none", "ok" (returned Ok) or "panic"
  chunksOut,     \* the returned Vec<CodeChunk>
  \* --- one call of SemanticIndexer::index_files
  spc,           \* "idle", the position inside index_files, or how it ended:
                 \* "done" (Ok), "error" (Err) or "panic"
  sfiles,        \* files: what chunk_file does on each of them
  all_chunks,    \* all_chunks, each chunk a number: 100 * file + position
  sloop,         \* pos: the file the first loop is at; next: the chunk the
                 \* batch loop is at; batch_end: the last chunk of its batch
  sem_stats,     \* SemanticIndexStats
  before,        \* the two files of ~/.seekr/semantic when the call began
  \* --- one hybrid search command
  hsearch        \* position, what was initialized and called, what was printed

ixvars == <<now, fs, cacheDisk, idx, pc, mode, pos, files, writer, cur, stats,
            runs, changed>>
\* What a command leaves alone besides the file system and the cache map.
runvars == <<cacheDisk, idx, pc, mode, pos, writer, cur, stats, runs, changed>>
cavars == <<calls>>
vsvars == <<store, index, capacity, metadata, vectorsFile, metadataFile, addlog,
            fresh, chunks>>
rkvars == <<config, lexical, semantic, limit, ranked, fused, walk_root>>
\* What the indexer commands and the FileCache caller leave alone.
wtvars == <<wpc, chan, pending_files, sinceRecv, sinceIndex, sent, sinceSent,
            sinceIndexable, startsSince, split, startGap, seen>>
chvars == <<chunker, file_path, text, parse, overflow_checks, chpc, outcome,
            chunksOut>>
smvars == <<spc, sfiles, all_chunks, sloop, sem_stats, before, hsearch>>
others == <<vsvars, rkvars, wtvars, chvars, smvars>>
vars == <<ixvars, cavars, vsvars, rkvars, wtvars, chvars, smvars>>

\* --------------------------------------------------------------- FileCache
EmptyMap == [q \in {} |-> 0]
Put(f, p, v) == [q \in (DOMAIN f) \cup {p} |-> IF q = p THEN v ELSE f[q]]

\* Option<u64>::None of the mtime chain in check_file / update_file.
NoMtime == -1
\* fs::metadata(path).modified().duration_since(UNIX_EPOCH).as_secs():
\* fails for a missing file and for an mtime before the epoch.
MtimeSecs(p) == IF fs[p].exists /\ fs[p].mtime >= 0 THEN fs[p].mtime ELSE NoMtime

check_file_NoCompare(f, p) ==
  IF MtimeSecs(p) = NoMtime THEN "New"
  ELSE IF p \notin DOMAIN f THEN "New"
  ELSE "Modified"

check_file_GreaterEq(f, p) ==
  IF MtimeSecs(p) = NoMtime THEN "New"
  ELSE IF p \notin DOMAIN f THEN "New"
  ELSE IF MtimeSecs(p) >= f[p] THEN "Modified" ELSE "Unchanged"

\* FileCache::check_file on the map f.
check_file(f, p) ==
  IF MtimeSecs(p) = NoMtime THEN "New"
  ELSE IF p \notin DOMAIN f THEN "New"
  ELSE IF MtimeSecs(p) > f[p] THEN "Modified" ELSE "Unchanged"

update_file_Noop(f, p) == f

\* FileCache::update_file on the map f: the map after the call.
update_file(f, p) ==
  IF MtimeSecs(p) # NoMtime THEN Put(f, p, MtimeSecs(p)) ELSE f

\* ------------------------------------------------------------ lexical runs
NoFile == [file_path |-> "", content |-> 0]
\* files_indexed and skipped_files of the command; prev is the kind of the
\* command before it and S the files changed between the two.
ZeroStats == [files_indexed |-> 0, skipped |-> 0, prev |-> "none", S |-> {}]

\* The document built by the doc!(...) of both walks.
Doc(p, content) ==
  [file_path |-> p, content |-> content, language |-> Language(Ext[p])]

IndexerNew_KeepsIndex(force) == idx

\* Indexer::new(path, force): the committed index it opens.
IndexerNew(force) == IF force THEN <<>> ELSE idx

Begin == [ZeroStats EXCEPT !.prev = IF runs = 0 THEN "none" ELSE mode,
                           !.S = changed]

\* main, Commands::Index up to the walk: FileCache::load, Indexer::new and,
\* with --force, file_cache.clear().
StartIndex(force) ==
  /\ pc = "idle" /\ runs < MaxRuns
  /\ runs' = runs + 1
  /\ mode' = IF force THEN "force" ELSE "incr"
  /\ files' = IF force THEN EmptyMap ELSE cacheDisk
  /\ idx' = IndexerNew(force)
  /\ pc' = "walk" /\ stats' = Begin /\ changed' = {}
  /\ UNCHANGED <<now, fs, cacheDisk, pos, writer, cur>>
  /\ UNCHANGED <<cavars, others>>

\* main, Commands::Init up to the walk: Indexer::new(path, true); no cache.
StartInit ==
  /\ pc = "idle" /\ runs < MaxRuns
  /\ runs' = runs + 1
  /\ mode' = "init"
  /\ idx' = IndexerNew(TRUE)
  /\ pc' = "walk" /\ stats' = Begin /\ changed' = {}
  /\ UNCHANGED <<now, fs, cacheDisk, pos, files, writer, cur>>
  /\ UNCHANGED <<cavars, others>>

\* One iteration of the loop of index_directory_incremental up to and
\* including fs::read_to_string.
IncrVisit ==
  /\ pc = "walk" /\ mode = "incr" /\ pos <= Len(PathSeq)
  /\ LET p == PathSeq[pos] IN
       IF ~fs[p].exists \/ ~Supported(p) THEN
         /\ pos' = pos + 1
         /\ UNCHANGED <<pc, cur, stats>>
       ELSE IF check_file(files, p) = "Unchanged" THEN
         /\ stats' = [stats EXCEPT !.skipped = @ + 1]
         /\ pos' = pos + 1
         /\ UNCHANGED <<pc, cur>>
       ELSE IF p \in NonUtf8 THEN
         /\ pos' = pos + 1
         /\ UNCHANGED <<pc, cur, stats>>
       ELSE
         /\ cur' = [file_path |-> p, content |-> fs[p].content]
         /\ pc' = "record"
         /\ UNCHANGED <<pos, stats>>
  /\ UNCHANGED <<now, fs, cacheDisk, idx, mode, files, writer, runs, changed>>
  /\ UNCHANGED <<cavars, others>>

\* The rest of that iteration: add_document, cache.update_file, counters.
IncrRecord ==
  /\ pc = "record"
  /\ writer' = Append(writer, Doc(cur.file_path, cur.content))
  /\ files' = update_file(files, cur.file_path)
  /\ stats' = [stats EXCEPT !.files_indexed = @ + 1]
  /\ cur' = NoFile /\ pos' = pos + 1 /\ pc' = "walk"
  /\ UNCHANGED <<now, fs, cacheDisk, idx, mode, runs, changed>>
  /\ UNCHANGED <<cavars, others>>

\* One iteration of the loop of index_directory (--force and init).
FullVisit ==
  /\ pc = "walk" /\ mode \in {"force", "init"} /\ pos <= Len(PathSeq)
  /\ LET p == PathSeq[pos] IN
       IF fs[p].exists /\ Supported(p) /\ p \notin NonUtf8 THEN
         /\ writer' = Append(writer, Doc(p, fs[p].content))
         /\ stats' = [stats EXCEPT !.files_indexed = @ + 1]
       ELSE UNCHANGED <<writer, stats>>
  /\ pos' = pos + 1
  /\ UNCHANGED <<now, fs, cacheDisk, idx, pc, mode, files, cur, runs, changed>>
  /\ UNCHANGED <<cavars, others>>

\* writer.commit() at the end of either walk; init ends here.
Commit ==
  /\ pc = "walk" /\ pos > Len(PathSeq)
  /\ idx' = idx \o writer
  /\ writer' = <<>> /\ pos' = 1
  /\ pc' = CASE mode = "incr" -> "save" [] mode = "force" -> "cachewalk"
             [] OTHER -> "idle"
  /\ UNCHANGED <<now, fs, cacheDisk, mode, files, cur, stats, runs, changed>>
  /\ UNCHANGED <<cavars, others>>

\* One iteration of the second walk of main under --force: update_file for
\* every regular file.
CacheWalk ==
  /\ pc = "cachewalk" /\ pos <= Len(PathSeq)
  /\ files' = IF fs[PathSeq[pos]].exists THEN update_file(files, PathSeq[pos])
              ELSE files
  /\ pos' = pos + 1
  /\ UNCHANGED <<now, fs, cacheDisk, idx, pc, mode, writer, cur, stats, runs, changed>>
  /\ UNCHANGED <<cavars, others>>

\* FileCache::save, the last statement of both index variants.
SaveCache ==
  /\ \/ pc = "save"
     \/ pc = "cachewalk" /\ pos > Len(PathSeq)
  /\ cacheDisk' = files
  /\ pc' = "idle" /\ pos' = 1
  /\ UNCHANGED <<now, fs, idx, mode, files, writer, cur, stats, runs, changed>>
  /\ UNCHANGED <<cavars, others>>

\* ------------------------------------------------- edits by other programs
\* Other programs write the two source files; each change happens in a second
\* of its own, so changes are at least one second apart.  Content is named
\* by the second in which it was written.
Written == {"a.rs", "b.py"}

Edit(p) ==
  /\ fs[p].exists /\ now < MaxTime
  /\ now' = now + 1
  /\ fs' = [fs EXCEPT ![p] = [exists |-> TRUE, mtime |-> now + 1, content |-> now + 1]]
  /\ changed' = changed \cup {p}
  /\ UNCHANGED <<cacheDisk, idx, pc, mode, pos, files, writer, cur, stats, runs>>
  /\ UNCHANGED <<cavars, others>>

Create(p) ==
  /\ ~fs[p].exists /\ now < MaxTime
  /\ now' = now + 1
  /\ fs' = [fs EXCEPT ![p] = [exists |-> TRUE, mtime |-> now + 1, content |-> now + 1]]
  /\ changed' = changed \cup {p}
  /\ UNCHANGED <<cacheDisk, idx, pc, mode, pos, files, writer, cur, stats, runs>>
  /\ UNCHANGED <<cavars, others>>

Delete(p) ==
  /\ fs[p].exists /\ now < MaxTime
  /\ now' = now + 1
  /\ fs' = [fs EXCEPT ![p] = [exists |-> FALSE, mtime |-> 0, content |-> 0]]
  /\ changed' = changed \cup {p}
  /\ UNCHANGED <<cacheDisk, idx, pc, mode, pos, files, writer, cur, stats, runs>>
  /\ UNCHANGED <<cavars, others>>

Absent == [exists |-> FALSE, mtime |-> 0, content |-> 0]
Present == [exists |-> TRUE, mtime |-> 1, content |-> 1]
\* Written in second 1 and then given an mtime before the Unix epoch
\* (touch -d 1969-01-01): duration_since(UNIX_EPOCH) fails on it.
PreEpoch == [exists |-> TRUE, mtime |-> -1, content |-> 1]

\* A directory holding any subset of the four files, written in second 1;
\* no ~/.seekr yet.
IxInit ==
  /\ now = 1
  /\ fs \in [Paths -> {Absent, Present, PreEpoch}]
  /\ \A p \in Paths \ Written : fs[p] # PreEpoch
  /\ cacheDisk = EmptyMap /\ idx = <<>>
  /\ pc = "idle" /\ mode = "incr" /\ pos = 1 /\ files = EmptyMap /\ writer = <<>>
  /\ cur = NoFile /\ stats = ZeroStats
  /\ runs = 0 /\ changed = {}

NoVectorsFile == [present |-> FALSE, keys |-> EmptyMap]
NoMetadataFile == [state |-> "none", rows |-> <<>>]

\* VectorStore::new on an empty directory.
VsInit ==
  /\ store = "open" /\ index = EmptyMap /\ capacity = 0 /\ metadata = <<>>
  /\ vectorsFile = NoVectorsFile /\ metadataFile = NoMetadataFile
  /\ addlog = <<>> /\ fresh = TRUE /\ chunks = 0

\* ------------------------------------------------------------ HybridRanker
\* f32 scores are modelled by exact fractions n/d in lowest terms, d > 0.
RECURSIVE GCD(_, _)
GCD(a, b) == IF b = 0 THEN a ELSE GCD(b, a % b)
LCM(a, b) == (a \div GCD(a, b)) * b
Rat(n, d) ==
  LET g == GCD(IF n < 0 THEN -n ELSE n, d)
  IN [n |-> n \div g, d |-> d \div g]
RAdd(a, b) ==
  LET l == LCM(a.d, b.d) IN Rat(a.n * (l \div a.d) + b.n * (l \div b.d), l)
RSub(a, b) == RAdd(a, [n |-> -b.n, d |-> b.d])
RMul(a, b) == Rat(a.n * b.n, a.d * b.d)
\* a / b for b > 0
RDiv(a, b) == Rat(a.n * b.d, a.d * b.n)
RLess(a, b) ==
  LET l == LCM(a.d, b.d) IN a.n * (l \div a.d) < b.n * (l \div b.d)
RZero == [n |-> 0, d |-> 1]
ROne == [n |-> 1, d |-> 1]

\* rrf_k: 60.0 of HybridConfig::default and of main's hybrid search.
RrfK == 60
\* Values of --alpha.
Alphas == {Rat(0, 1), Rat(1, 4), Rat(1, 2), Rat(1, 1)}
RankedPaths == {"x", "y", "z"}

\* The result at 1-based position i of a list: its payload fields tell the
\* list and the position it came from.
Result(path, score, source, i) ==
  [file_path |-> path, score |-> score, source |-> source,
   start_line |-> i, end_line |-> i + 10,
   content_preview |-> <<source, i>>, name |-> <<"fn", source, i>>]

\* Result lists as the searches return them: best first, with scores either
\* strictly decreasing or all equal.
Lists(source) ==
  UNION {
    {[i \in 1..n |-> Result(ps[i], IF desc THEN Rat(n + 1 - i, 1) ELSE Rat(2, 1),
                            source, i)] :
       ps \in [1..n -> RankedPaths], desc \in BOOLEAN}
    : n \in 0..MaxLen}

\* The list of the given file_paths and scores, best first.
Scored(ps, ss, source) ==
  [i \in 1..Len(ps) |-> Result(ps[i], ss[i], source, i)]

\* The `limit` of tests::test_rrf_fusion.
TestLimit == 10

\* Two longer calls: the lists of tests::test_rrf_fusion, one entry longer
\* each as in the worked example of the documentation, and a semantic list
\* holding two chunks of one file, as VectorStore::search returns them.
Examples ==
  { [lexical |-> Scored(<<"x", "y", "z">>,
                        <<Rat(10, 1), Rat(8, 1), Rat(6, 1)>>, "Lexical"),
     semantic |-> Scored(<<"y", "z", "w">>,
                         <<Rat(9, 10), Rat(8, 10), Rat(7, 10)>>, "Semantic")],
    [lexical |-> Scored(<<"x">>, <<Rat(10, 1)>>, "Lexical"),
     semantic |-> Scored(<<"z", "y", "y">>,
                         <<Rat(9, 10), Rat(8, 10), Rat(7, 10)>>, "Semantic")] }

\* fuse treats file_paths only by equality, so a non-empty lexical list is
\* taken to start with "x"; every other call is one of these with the paths
\* renamed.
RkInit ==
  /\ config \in [alpha : Alphas, rrf_k : {RrfK}, use_rrf : BOOLEAN]
  /\ \/ /\ lexical \in Lists("Lexical")
        /\ lexical # <<>> => lexical[1].file_path = "x"
        /\ semantic \in Lists("Semantic")
        /\ limit \in 0..MaxLimit
     \/ /\ \E e \in Examples : lexical = e.lexical /\ semantic = e.semantic
        /\ limit = TestLimit
  /\ ranked = "input" /\ fused = <<>> /\ walk_root = <<>>

\* Outside a ranker check: one fixed call, never made.
RkIdle ==
  /\ config = [alpha |-> Rat(1, 2), rrf_k |-> RrfK, use_rrf |-> TRUE]
  /\ lexical = <<>> /\ semantic = <<>> /\ limit = 0
  /\ ranked = "input" /\ fused = <<>> /\ walk_root = <<>>

\* ------------------------------------------------------------- FileWatcher
\* No watcher running.
WtIdle ==
  /\ wpc = "off" /\ chan = <<>> /\ pending_files = {}
  /\ sinceRecv = 0 /\ sinceIndex = 0
  /\ sent = 0 /\ sinceSent = DebounceTicks /\ sinceIndexable = DebounceTicks
  /\ startsSince = 0 /\ split = FALSE /\ startGap = DebounceTicks /\ seen = {}

\* ----------------------------------------------------------------- Chunker
\* Chunker::default()
DefaultChunker == [max_chunk_size |-> 2000, overlap_ratio |-> Rat(1, 5)]

\* The parser could not be set up or gave no tree.
ParseFailed == [ok |-> FALSE, nodes |-> <<>>]

\* No chunk_file call.
ChIdle ==
  /\ chunker = DefaultChunker /\ file_path = "" /\ text = <<>>
  /\ parse = ParseFailed /\ overflow_checks = FALSE
  /\ chpc = "input" /\ outcome = "none" /\ chunksOut = <<>>

\* ------------------------------------------------------- SemanticIndexer
\* pc: "idle", "start", "check", "semantic", "fuse" or "done"; lexical_index:
\* ~/.seekr/index holds an index; json: --json; embedder, ranker: Embedder::new
\* and HybridRanker::fuse were called; notice: "No semantic index" was printed;
\* shown, printed: which results were printed, and their file_paths;
\* exit: "none", "ok" or "err".
NoSearch ==
  [pc |-> "idle", lexical_index |-> FALSE, json |-> FALSE, embedder |-> FALSE,
   ranker |-> FALSE, notice |-> FALSE, shown |-> "none", printed |-> <<>>,
   exit |-> "none"]

\* No index_files call and no search.
SemIdle ==
  /\ spc = "idle" /\ sfiles = <<>> /\ all_chunks = <<>>
  /\ sloop = [pos |-> 1, next |-> 1, batch_end |-> 0]
  /\ sem_stats = [files_processed |-> 0, chunks_created |-> 0,
                  embeddings_generated |-> 0]
  /\ before = [vectorsFile |-> NoVectorsFile, metadataFile |-> NoMetadataFile]
  /\ hsearch = NoSearch

OthersInit == calls = <<>> /\ VsInit /\ RkIdle /\ WtIdle /\ ChIdle /\ SemIdle

RunStep ==
  \/ IncrVisit \/ IncrRecord \/ FullVisit \/ Commit \/ CacheWalk \/ SaveCache

External ==
  \E p \in Written : Edit(p) \/ Create(p) \/ Delete(p)

\* Commands run one at a time on a directory nobody else writes to while a
\* command runs.
Next ==
  \/ \E force \in BOOLEAN : StartIndex(force)
  \/ StartInit
  \/ RunStep
  \/ pc = "idle" /\ External

\* The state before the first command: the directory as found, nothing of
\* seekr's on disk.
Init == IxInit /\ OthersInit

Spec == Init /\ [][Next]_vars

\* ---------------------------------------------- incremental runs that fail
\* The file_paths of the documents in the writer.
WriterPaths == {writer[i].file_path : i \in DOMAIN writer}

\* The error return of an incremental run: the IndexWriter is dropped with
\* its documents, the FileCache in memory is never saved.  mode "failed"
\* and stats.S keep what the run had read.
Failed(touched) ==
  /\ mode' = "failed" /\ pc' = "idle" /\ pos' = 1
  /\ writer' = <<>> /\ cur' = NoFile
  /\ stats' = [stats EXCEPT !.S = touched]
  /\ UNCHANGED <<now, fs, cacheDisk, idx, files, runs, changed>>
  /\ UNCHANGED <<cavars, others>>

\* writer.add_document(..)? returns the error.
AddDocumentFails ==
  /\ pc = "record" /\ mode = "incr"
  /\ Failed(WriterPaths \cup {cur.file_path})

CommitFails_AfterCacheSave ==
  /\ pc = "walk" /\ mode = "incr" /\ pos > Len(PathSeq)
  /\ mode' = "failed" /\ pc' = "idle" /\ pos' = 1
  /\ writer' = <<>> /\ cur' = NoFile
  /\ stats' = [stats EXCEPT !.S = WriterPaths]
  /\ cacheDisk' = files
  /\ UNCHANGED <<now, fs, idx, files, runs, changed>>
  /\ UNCHANGED <<cavars, others>>

\* writer.commit()? returns the error.
CommitFails ==
  /\ pc = "walk" /\ mode = "incr" /\ pos > Len(PathSeq)
  /\ Failed(WriterPaths)

\* index_directory(&path)? returns the error of add_document or commit in
\* an `index --force` or `init` run: Indexer::new has erased the index
\* directory, the file_cache.save() of main is not reached.
FullRunFails ==
  /\ pc = "walk" /\ mode \in {"force", "init"}
  /\ Failed(WriterPaths)

FailNext == Next \/ AddDocumentFails \/ CommitFails

SpecFail == Init /\ [][FailNext]_vars

\* Runs of every kind that may fail.
FullFailNext == FailNext \/ FullRunFails

SpecFullFail == Init /\ [][FullFailNext]_vars

\* `index` commands with other programs writing the files at any time.
RaceNext ==
  \/ \E force \in BOOLEAN : StartIndex(force)
  \/ RunStep
  \/ External

SpecRace == Init /\ [][RaceNext]_vars


\* ------------------------------------------------ the FileCache by itself
\* A caller that holds a FileCache and calls check_file, update_file and clear
\* on the two source files in any order, while other programs set mtimes
\* (forwards, backwards, before the epoch) and remove files.
Last3(s) == IF Len(s) > 3 THEN SubSeq(s, Len(s) - 2, Len(s)) ELSE s

CallCheck(p) ==
  /\ calls' = Last3(Append(calls,
       [op |-> "check", path |-> p, result |-> check_file(files, p),
        known |-> p \in DOMAIN files,
        stored |-> IF p \in DOMAIN files THEN files[p] ELSE NoMtime]))
  /\ UNCHANGED <<now, fs, files, runvars>>
  /\ UNCHANGED others

CallUpdate(p) ==
  /\ files' = update_file(files, p)
  /\ calls' = Last3(Append(calls,
       [op |-> "update", path |-> p, result |-> "",
        known |-> p \in DOMAIN files,
        stored |-> IF p \in DOMAIN files THEN files[p] ELSE NoMtime]))
  /\ UNCHANGED <<now, fs, runvars>>
  /\ UNCHANGED others

\* FileCache::clear
CallClear ==
  /\ files # EmptyMap
  /\ files' = EmptyMap
  /\ calls' = <<>>
  /\ UNCHANGED <<now, fs, runvars>>
  /\ UNCHANGED others

SetMtime(p, t) ==
  /\ fs[p] # [exists |-> TRUE, mtime |-> t, content |-> 1]
  /\ fs' = [fs EXCEPT ![p] = [exists |-> TRUE, mtime |-> t, content |-> 1]]
  /\ calls' = <<>>
  /\ UNCHANGED <<now, files, runvars>>
  /\ UNCHANGED others

Remove(p) ==
  /\ fs[p].exists
  /\ fs' = [fs EXCEPT ![p] = Absent]
  /\ calls' = <<>>
  /\ UNCHANGED <<now, files, runvars>>
  /\ UNCHANGED others

CacheNext ==
  \/ \E p \in Written : CallCheck(p) \/ CallUpdate(p) \/ Remove(p)
  \/ CallClear
  \/ \E p \in Written, t \in -1..MaxTime : SetMtime(p, t)

CacheInit ==
  /\ IxInit
  /\ \A p \in Paths \ Written : fs[p] = Absent
  /\ OthersInit

SpecCache == CacheInit /\ [][CacheNext]_vars

\* ------------------------------------------------------------- VectorStore
\* The 1000 of `(current_capacity + 1000).max(1000)`.
ReserveStep == 1000
Max(a, b) == IF a >= b THEN a ELSE b

add_PushesBeforeInsert(rows, c) == Append(rows, c)

\* self.metadata when add returns early through `?` after a failed reserve
\* or a failed index.add: the push of line 95 has not run.
add_OnFailure(rows, c) == rows

add_KeyOneBased(rows) == Len(rows) + 1

\* let key = self.metadata.len() as u64
add_Key(rows) == Len(rows)

\* VectorStore::add for the vector and metadata of chunk c = chunks + 1.
\* reserveOk and insertOk are the answers of usearch; an insert of a key the
\* index already holds fails (multi: false).
Add(reserveOk, insertOk) ==
  /\ store = "open" /\ chunks < MaxAdds
  /\ chunks' = chunks + 1
  /\ LET c == chunks + 1
         key == add_Key(metadata)
         needReserve == key >= capacity
         reserved == ~needReserve \/ reserveOk
         inserted == reserved /\ insertOk /\ key \notin DOMAIN index
     IN
       /\ capacity' = IF needReserve /\ reserveOk
                        THEN Max(capacity + ReserveStep, ReserveStep)
                        ELSE capacity
       /\ index' = IF inserted THEN Put(index, key, c) ELSE index
       /\ metadata' = IF inserted THEN Append(metadata, c)
                                  ELSE add_OnFailure(metadata, c)
       /\ addlog' = Append(addlog, [ok |-> inserted, key |-> key, chunk |-> c])
  /\ UNCHANGED <<store, vectorsFile, metadataFile, fresh>>
  /\ UNCHANGED <<ixvars, cavars, rkvars, wtvars, chvars, smvars>>

\* VectorStore::save, first half: index.save(vectors.usearch).
SaveIndex ==
  /\ store = "open"
  /\ vectorsFile' = [present |-> TRUE, keys |-> index]
  /\ store' = "saving"
  /\ UNCHANGED <<index, capacity, metadata, metadataFile, addlog, fresh, chunks>>
  /\ UNCHANGED <<ixvars, cavars, rkvars, wtvars, chvars, smvars>>

\* VectorStore::save, second half: fs::write(metadata.json).
SaveMetadata ==
  /\ store = "saving"
  /\ metadataFile' = [state |-> "ok", rows |-> metadata]
  /\ store' = "open"
  /\ UNCHANGED <<index, capacity, metadata, vectorsFile, addlog, fresh, chunks>>
  /\ UNCHANGED <<ixvars, cavars, rkvars, wtvars, chvars, smvars>>

\* The process ends or dies; inside save it may die before fs::write
\* (metadata.json untouched) or in the middle of it (metadata.json truncated).
Exit(torn) ==
  /\ store # "closed"
  /\ torn => store = "saving"
  /\ metadataFile' = IF torn THEN [state |-> "corrupt", rows |-> <<>>]
                             ELSE metadataFile
  /\ store' = "closed"
  /\ index' = EmptyMap /\ capacity' = 0 /\ metadata' = <<>> /\ addlog' = <<>>
  /\ fresh' = FALSE
  /\ UNCHANGED <<vectorsFile, chunks>>
  /\ UNCHANGED <<ixvars, cavars, rkvars, wtvars, chvars, smvars>>

\* VectorStore::new: metadata.json parsed with unwrap_or_default, then
\* vectors.usearch loaded if present.
Open ==
  /\ store = "closed"
  /\ metadata' = IF metadataFile.state = "ok" THEN metadataFile.rows ELSE <<>>
  /\ index' = IF vectorsFile.present THEN vectorsFile.keys ELSE EmptyMap
  /\ capacity' = IF vectorsFile.present THEN Cardinality(DOMAIN vectorsFile.keys)
                                         ELSE 0
  /\ fresh' = (~vectorsFile.present /\ metadataFile.state = "none")
  /\ addlog' = <<>>
  /\ store' = "open"
  /\ UNCHANGED <<vectorsFile, metadataFile, chunks>>
  /\ UNCHANGED <<ixvars, cavars, rkvars, wtvars, chvars, smvars>>

\* VectorStore::clear
Clear ==
  /\ store = "open"
  /\ index' = EmptyMap /\ capacity' = 0 /\ metadata' = <<>>
  /\ vectorsFile' = NoVectorsFile /\ metadataFile' = NoMetadataFile
  /\ addlog' = <<>> /\ fresh' = TRUE
  /\ UNCHANGED <<store, chunks>>
  /\ UNCHANGED <<ixvars, cavars, rkvars, wtvars, chvars, smvars>>

VsNext ==
  \/ \E reserveOk, insertOk \in BOOLEAN : Add(reserveOk, insertOk)
  \/ SaveIndex \/ SaveMetadata
  \/ \E torn \in BOOLEAN : Exit(torn)
  \/ Open
  \/ Clear

\* The indexed directory plays no part here.
IxIdle == IxInit /\ \A p \in Paths : fs[p] = Absent

\* VectorStore::new on an empty directory.
VsStart == IxIdle /\ OthersInit

SpecVS == VsStart /\ [][VsNext]_vars

\* ------------------------------------------------- HybridRanker::fuse
rrf_score_NoPlusOne(k, rank) == Rat(1, k + rank)

\* let rrf_score = 1.0 / (k + rank as f32 + 1.0), rank counted from 0
rrf_score(k, rank) == Rat(1, k + rank + 1)

Upsert_NoAccumulate(scores, result, w) ==
  IF result.file_path \in DOMAIN scores
    THEN [scores EXCEPT ![result.file_path] = [s |-> w, r |-> @.r]]
    ELSE Put(scores, result.file_path, [s |-> w, r |-> result])

Upsert_KeepsLast(scores, result, w) ==
  IF result.file_path \in DOMAIN scores
    THEN [scores EXCEPT ![result.file_path] = [s |-> RAdd(@.s, w), r |-> result]]
    ELSE Put(scores, result.file_path, [s |-> w, r |-> result])

\* scores.entry(key).and_modify(|(s, r)| { *s += w; if r.is_none() {..} })
\*       .or_insert((w, Some(result)))
Upsert(scores, result, w) ==
  IF result.file_path \in DOMAIN scores
    THEN [scores EXCEPT ![result.file_path] = [s |-> RAdd(@.s, w), r |-> @.r]]
    ELSE Put(scores, result.file_path, [s |-> w, r |-> result])

\* The two `for (rank, result) in ....enumerate()` loops of rrf_fusion, from
\* position i of the list on.
RECURSIVE RrfLoop(_, _, _, _)
RrfLoop(scores, list, i, weight) ==
  IF i > Len(list) THEN scores
  ELSE RrfLoop(Upsert(scores, list[i],
                      RMul(rrf_score(config.rrf_k, i - 1), weight)),
               list, i + 1, weight)

\* results.sort_by(|a, b| b.score.partial_cmp(&a.score).unwrap()): a stable
\* sort, so r goes behind every element that does not score less.
RECURSIVE InsertDesc(_, _)
InsertDesc(sorted, r) ==
  IF sorted = <<>> THEN <<r>>
  ELSE IF RLess(sorted[1].score, r.score) THEN <<r>> \o sorted
  ELSE <<sorted[1]>> \o InsertDesc(Tail(sorted), r)

RECURSIVE SortDesc(_)
SortDesc(list) ==
  IF list = <<>> THEN <<>>
  ELSE InsertDesc(SortDesc(SubSeq(list, 1, Len(list) - 1)), list[Len(list)])

Truncate(list, n) == IF Len(list) > n THEN SubSeq(list, 1, n) ELSE list

\* scores.into_iter().filter_map(..).collect(), then sort and truncate.  A
\* HashMap with the default hasher iterates in an order that differs from
\* process to process: order is any enumeration of its keys.
Collect(scores, order) ==
  Truncate(
    SortDesc([i \in 1..Len(order) |->
                [scores[order[i]].r EXCEPT !.score = scores[order[i]].s,
                                           !.source = "Hybrid"]]),
    limit)

Orders(keys) ==
  {o \in [1..Cardinality(keys) -> keys] : \A i, j \in DOMAIN o : i # j => o[i] # o[j]}

\* The `scores` map of rrf_fusion after both loops.
rrf_fusion_scores(lexical_results, semantic_results) ==
  RrfLoop(RrfLoop(EmptyMap, lexical_results, 1, config.alpha),
          semantic_results, 1, RSub(ROne, config.alpha))

\* That map for the call at hand.
rrf_scores == rrf_fusion_scores(lexical, semantic)

RECURSIVE MinScore(_)
MinScore(list) ==
  IF Len(list) = 1 THEN list[1].score
  ELSE LET m == MinScore(Tail(list))
       IN IF RLess(list[1].score, m) THEN list[1].score ELSE m

RECURSIVE MaxScore(_)
MaxScore(list) ==
  IF Len(list) = 1 THEN list[1].score
  ELSE LET m == MaxScore(Tail(list))
       IN IF RLess(m, list[1].score) THEN list[1].score ELSE m

normalize_scores_DividesByMax(results) ==
  IF results = <<>> THEN results
  ELSE IF ~RLess(MinScore(results), MaxScore(results))
    THEN [i \in DOMAIN results |-> [results[i] EXCEPT !.score = ROne]]
    ELSE [i \in DOMAIN results |->
            [results[i] EXCEPT !.score = RDiv(RSub(@, MinScore(results)),
                                              MaxScore(results))]]

normalize_scores_Identity(results) == results

\* HybridRanker::normalize_scores
normalize_scores(results) ==
  IF results = <<>> THEN results
  ELSE LET min == MinScore(results)
           max == MaxScore(results)
           range == RSub(max, min)
       IN IF ~RLess(RZero, range)
            THEN [i \in DOMAIN results |-> [results[i] EXCEPT !.score = ROne]]
            ELSE [i \in DOMAIN results |->
                    [results[i] EXCEPT !.score = RDiv(RSub(@, min), range)]]

\* The two `for result in normalized_...` loops of linear_fusion.
RECURSIVE LinearLoop(_, _, _, _)
LinearLoop(scores, list, i, weight) ==
  IF i > Len(list) THEN scores
  ELSE LinearLoop(Upsert(scores, list[i], RMul(list[i].score, weight)),
                  list, i + 1, weight)

\* The `scores` map of linear_fusion after both loops.
linear_scores ==
  LinearLoop(LinearLoop(EmptyMap, normalize_scores(lexical), 1, config.alpha),
             normalize_scores(semantic), 1, RSub(ROne, config.alpha))

FusedPaths ==
  {lexical[i].file_path : i \in DOMAIN lexical}
    \cup {semantic[i].file_path : i \in DOMAIN semantic}

\* HybridRanker::fuse: rrf_fusion or linear_fusion, whose common tail is
\* Collect.
Fuse ==
  /\ ranked = "input"
  /\ LET scores == IF config.use_rrf THEN rrf_scores ELSE linear_scores
     IN \E order \in Orders(DOMAIN scores) : fused' = Collect(scores, order)
  /\ ranked' = "done"
  /\ UNCHANGED <<config, lexical, semantic, limit, walk_root>>
  /\ UNCHANGED <<ixvars, cavars, vsvars, wtvars, chvars, smvars>>

\* ------------------------------- file_path strings of the two indexes
\* Paths are sequences of components.  The directories `index` is given:
\* ".", a relative one, and the absolute one of env::current_dir().
Roots == { <<".">>, <<"proj">>, <<"/", "home", "u", "proj">> }

\* The source files below the directory, relative to it.
SourceFiles == { <<"src", "a.rs">>, <<"b.py">> }

\* entry.path() of the walker: the directory it was built on, then the rest.
WalkEntry(rel) == walk_root \o rel

\* entry_path.strip_prefix(path).unwrap_or(entry_path).to_string_lossy():
\* the file_path field of the lexical document.
relative_path(entry_path) ==
  IF /\ Len(walk_root) <= Len(entry_path)
     /\ SubSeq(entry_path, 1, Len(walk_root)) = walk_root
    THEN SubSeq(entry_path, Len(walk_root) + 1, Len(entry_path))
    ELSE entry_path

\* file_path.to_string_lossy().to_string() of the chunker, on the path that
\* main pushed into `files`: entry_path.to_path_buf().
file_path_str(entry_path) == entry_path

\* Sequences of distinct source files, at most MaxLen long.
Hits ==
  UNION {{h \in [1..n -> SourceFiles] : \A i, j \in 1..n : i # j => h[i] # h[j]} :
           n \in 0..MaxLen}

\* `index --semantic` on walk_root, then `search --hybrid`: the lexical
\* search returns documents of the files ls, the semantic search chunks of the
\* files ss, each with the file_path its index stored.
IndexThenSearch(ls, ss) ==
  /\ ranked = "index"
  /\ lexical' = [i \in DOMAIN ls |->
                   Result(relative_path(WalkEntry(ls[i])),
                          Rat(Len(ls) + 1 - i, 1), "Lexical", i)]
  /\ semantic' = [i \in DOMAIN ss |->
                    Result(file_path_str(WalkEntry(ss[i])),
                           Rat(Len(ss) + 1 - i, 1), "Semantic", i)]
  /\ ranked' = "input"
  /\ UNCHANGED <<config, limit, fused, walk_root>>
  /\ UNCHANGED <<ixvars, cavars, vsvars, wtvars, chvars, smvars>>

\* A ranker and the arguments of the one call made on it.
FuseInit ==
  IxIdle /\ calls = <<>> /\ VsInit /\ RkInit /\ WtIdle /\ ChIdle /\ SemIdle

FuseNext == Fuse

SpecFuse == FuseInit /\ [][FuseNext]_vars

PathInit ==
  /\ IxIdle /\ calls = <<>> /\ VsInit /\ WtIdle /\ ChIdle /\ SemIdle
  /\ config = [alpha |-> Rat(1, 2), rrf_k |-> RrfK, use_rrf |-> TRUE]
  /\ walk_root \in Roots
  /\ limit \in 1..MaxLimit
  /\ lexical = <<>> /\ semantic = <<>> /\ ranked = "index" /\ fused = <<>>

PathNext ==
  \/ \E ls, ss \in Hits : IndexThenSearch(ls, ss)
  \/ Fuse

SpecPaths == PathInit /\ [][PathNext]_vars

\* ------------------------------------------------------ FileWatcher::watch
\* Changed paths: whether some component starts with '.', and the extension.
WatchPaths ==
  { [name |-> "src/m.rs", hidden |-> FALSE, ext |-> "rs"],
    [name |-> "src/n.py", hidden |-> FALSE, ext |-> "py"],
    [name |-> "src/o.cc", hidden |-> FALSE, ext |-> "cc"],
    [name |-> ".git/h.rs", hidden |-> TRUE, ext |-> "rs"] }

\* Events of the notify crate: a change of each path, and a read access.
Events ==
  {[kind |-> "Modify", path |-> p] : p \in WatchPaths}
    \cup {[kind |-> "Access", path |-> p] : p \in {q \in WatchPaths : q.ext = "py"}}

\* The extension list of FileWatcher::is_indexable.
WatchedExts ==
  {"rs", "py", "js", "jsx", "ts", "tsx", "go", "java", "c", "h", "cpp", "hpp",
   "rb", "md", "toml", "yaml", "json"}

\* FileWatcher::is_indexable
is_indexable(path) ==
  IF path.hidden THEN FALSE ELSE path.ext \in WatchedExts

\* The event passes both matches of the Ok(event) arm.
Accepted(e) ==
  e.kind \in {"Create", "Modify", "Remove"} /\ is_indexable(e.path)

Cap(n, m) == IF n >= m THEN m ELSE n

\* The watcher's loop is entered: pending_files empty, last_index_time now.
WtInit ==
  /\ wpc = "recv" /\ chan = <<>> /\ pending_files = {}
  /\ sinceRecv = 0 /\ sinceIndex = 0
  /\ sent = 0 /\ sinceSent = DebounceTicks /\ sinceIndexable = DebounceTicks
  /\ startsSince = 0 /\ split = FALSE /\ startGap = DebounceTicks /\ seen = {}

\* One tick of time.  recv_timeout returns as soon as an event is there and at
\* the latest when its timeout is over; a reindex takes any time.
Tick ==
  /\ wpc = "recv" => (chan = <<>> /\ sinceRecv < DebounceTicks)
  /\ sinceRecv' = IF wpc = "recv" THEN sinceRecv + 1 ELSE sinceRecv
  /\ sinceIndex' = Cap(sinceIndex + 1, DebounceTicks)
  /\ sinceSent' = Cap(sinceSent + 1, DebounceTicks)
  /\ sinceIndexable' = Cap(sinceIndexable + 1, DebounceTicks)
  /\ UNCHANGED <<wpc, chan, pending_files, sent, startsSince, split, startGap, seen>>
  /\ UNCHANGED <<ixvars, cavars, vsvars, rkvars, chvars, smvars>>

\* The callback handed to RecommendedWatcher::new: tx.send(event).
Send(e) ==
  /\ sent < MaxEvents /\ Len(chan) < MaxChan
  /\ chan' = Append(chan, e)
  /\ sent' = sent + 1
  /\ sinceSent' = 0
  /\ IF Accepted(e)
       THEN /\ split' = (split \/ (sinceIndexable < DebounceTicks /\ startsSince > 0))
            /\ sinceIndexable' = 0
            /\ startsSince' = 0
       ELSE UNCHANGED <<split, sinceIndexable, startsSince>>
  /\ UNCHANGED <<wpc, pending_files, sinceRecv, sinceIndex, startGap, seen>>
  /\ UNCHANGED <<ixvars, cavars, vsvars, rkvars, chvars, smvars>>

\* rx.recv_timeout returns Ok(event); the next call begins.
RecvEvent ==
  /\ wpc = "recv" /\ chan # <<>>
  /\ LET e == Head(chan) IN
       /\ pending_files' = IF Accepted(e) THEN pending_files \cup {e.path.name}
                                          ELSE pending_files
       /\ seen' = IF e.kind \in {"Create", "Modify", "Remove"}
                    THEN seen \cup {e.path} ELSE seen
  /\ chan' = Tail(chan)
  /\ sinceRecv' = 0
  /\ UNCHANGED <<wpc, sinceIndex, sent, sinceSent, sinceIndexable, startsSince,
                 split, startGap>>
  /\ UNCHANGED <<ixvars, cavars, vsvars, rkvars, chvars, smvars>>

RecvTimeout_IgnoresPending ==
  /\ wpc = "recv" /\ chan = <<>> /\ sinceRecv >= DebounceTicks
  /\ IF sinceIndex >= DebounceTicks
       THEN /\ wpc' = "reindex"
            /\ startsSince' = Cap(startsSince + 1, 2)
            /\ startGap' = sinceSent
            /\ UNCHANGED sinceRecv
       ELSE /\ sinceRecv' = 0
            /\ UNCHANGED <<wpc, startsSince, startGap>>
  /\ UNCHANGED <<chan, pending_files, sinceIndex, sent, sinceSent, sinceIndexable,
                 split, seen>>
  /\ UNCHANGED <<ixvars, cavars, vsvars, rkvars, chvars, smvars>>

\* rx.recv_timeout returns Err(Timeout): self.reindex(path) begins, or the
\* next recv_timeout call does.
RecvTimeout ==
  /\ wpc = "recv" /\ chan = <<>> /\ sinceRecv >= DebounceTicks
  /\ IF pending_files # {} /\ sinceIndex >= DebounceTicks
       THEN /\ wpc' = "reindex"
            /\ startsSince' = Cap(startsSince + 1, 2)
            /\ startGap' = sinceSent
            /\ UNCHANGED sinceRecv
       ELSE /\ sinceRecv' = 0
            /\ UNCHANGED <<wpc, startsSince, startGap>>
  /\ UNCHANGED <<chan, pending_files, sinceIndex, sent, sinceSent, sinceIndexable,
                 split, seen>>
  /\ UNCHANGED <<ixvars, cavars, vsvars, rkvars, chvars, smvars>>

\* A return from reindex that also empties the channel.
ReindexDone_DropsQueued ==
  /\ wpc = "reindex"
  /\ pending_files' = {} /\ seen' = {}
  /\ sinceIndex' = 0 /\ sinceRecv' = 0
  /\ wpc' = "recv"
  /\ chan' = <<>>
  /\ UNCHANGED <<sent, sinceSent, sinceIndexable, startsSince, split, startGap>>
  /\ UNCHANGED <<ixvars, cavars, vsvars, rkvars, chvars, smvars>>

\* self.reindex(path) has returned (Ok or Err): pending_files.clear(),
\* last_index_time = now, and the next recv_timeout call begins.  The run
\* itself is the incremental run of StartIndex(FALSE) .. SaveCache.
ReindexDone ==
  /\ wpc = "reindex"
  /\ pending_files' = {} /\ seen' = {}
  /\ sinceIndex' = 0 /\ sinceRecv' = 0
  /\ wpc' = "recv"
  /\ UNCHANGED <<chan, sent, sinceSent, sinceIndexable, startsSince, split, startGap>>
  /\ UNCHANGED <<ixvars, cavars, vsvars, rkvars, chvars, smvars>>

WatchNext ==
  \/ Tick
  \/ \E e \in Events : Send(e)
  \/ RecvEvent
  \/ RecvTimeout
  \/ ReindexDone

WatchInit ==
  IxIdle /\ calls = <<>> /\ VsInit /\ RkIdle /\ WtInit /\ ChIdle /\ SemIdle

\* The watcher's thread runs and time passes.
SpecWatch ==
  /\ WatchInit /\ [][WatchNext]_vars
  /\ WF_vars(Tick) /\ WF_vars(RecvEvent) /\ WF_vars(RecvTimeout)
  /\ WF_vars(ReindexDone)

\* ------------------------------------------------------ Chunker::chunk_file
\* Chunkers: the default one and two built with Chunker::new whose windows
\* are short enough for a file to need several.
Chunkers ==
  { DefaultChunker,
    [max_chunk_size |-> 20, overlap_ratio |-> Rat(1, 5)],
    [max_chunk_size |-> 8, overlap_ratio |-> RZero] }

ChunkPaths == {"lib.rs", "notes.txt"}
ChunkExt == [p \in ChunkPaths |-> IF p = "lib.rs" THEN "rs" ELSE "txt"]

\* Language::from_path
from_path(ext) ==
  CASE ext = "rs" -> "Rust"
    [] ext = "py" -> "Python"
    [] ext \in {"js", "jsx", "mjs", "cjs"} -> "JavaScript"
    [] ext \in {"ts", "tsx"} -> "TypeScript"
    [] ext = "go" -> "Go"
    [] OTHER -> "Unknown"

\* A file of len bytes: the letter a, a newline at every lineLen-th byte and,
\* with mb > 0, one two-byte character at bytes mb and mb + 1.
Content(len, lineLen, mb) ==
  [i \in 1..len |->
     IF mb > 0 /\ mb + 1 <= len /\ i = mb THEN "lead"
     ELSE IF mb > 0 /\ mb + 1 <= len /\ i = mb + 1 THEN "cont"
     ELSE IF lineLen > 0 /\ i % lineLen = 0 THEN "\n"
     ELSE "a"]

Contents ==
  {Content(len, lineLen, mb) :
     len \in 0..MaxContent, lineLen \in {0, 7}, mb \in {0, 16, 20}}

\* str::is_char_boundary for the byte offset k of content.
IsCharBoundary(k) ==
  k = 0 \/ k = Len(text) \/ (k < Len(text) /\ text[k + 1] # "cont")

\* content[..k].matches('\n').count()
RECURSIVE NewlineCount(_)
NewlineCount(k) ==
  IF k = 0 THEN 0
  ELSE NewlineCount(k - 1) + (IF text[k] = "\n" THEN 1 ELSE 0)

LineOf_ZeroBased(k) == NewlineCount(k)

\* The 1-indexed line of byte offset k: matches('\n').count() + 1 of the
\* sliding window, Point::row + 1 of a tree-sitter node.
LineOf(k) == NewlineCount(k) + 1

\* content[a..b]
Slice(a, b) == SubSeq(text, a + 1, b)

\* Trees tree-sitter can answer for a Rust file: the source_file node and
\* its items, in the order of the walk.  Nodes lie on character boundaries.
Node(kind, a, b, name) ==
  [kind |-> kind, start_byte |-> a, end_byte |-> b, name |-> name]

Trees ==
  LET len == Len(text)
      root == Node("source_file", 0, len, "")
  IN { t \in
       { <<root>>,
         <<root, Node("function_item", 0, len, "f")>>,
         <<root, Node("line_comment", 0, len, "")>>,
         <<root, Node("impl_item", 0, len, "T"),
                 Node("function_item", IF len >= 3 THEN 2 ELSE 0,
                      IF len >= 3 THEN len - 1 ELSE len, "g")>>,
         <<root, Node("function_item", 0, IF len >= 10 THEN 10 ELSE len, "small"),
                 Node("struct_item", IF len >= 10 THEN 10 ELSE len, len, "S")>> } :
       \A i \in DOMAIN t :
         IsCharBoundary(t[i].start_byte) /\ IsCharBoundary(t[i].end_byte) }

\* Chunker::node_to_chunk_type
node_to_chunk_type(kind, language) ==
  CASE language = "Rust" ->
         (CASE kind = "function_item" -> "Function"
            [] kind = "impl_item" -> "Impl"
            [] kind = "struct_item" -> "Struct"
            [] kind = "mod_item" -> "Module"
            [] OTHER -> "None")
    [] language = "Python" ->
         (CASE kind = "function_definition" -> "Function"
            [] kind = "class_definition" -> "Class"
            [] OTHER -> "None")
    [] language \in {"JavaScript", "TypeScript"} ->
         (CASE kind \in {"function_declaration", "arrow_function", "function"}
                 -> "Function"
            [] kind = "class_declaration" -> "Class"
            [] kind = "method_definition" -> "Method"
            [] OTHER -> "None")
    [] language = "Go" ->
         (CASE kind \in {"function_declaration", "method_declaration"} -> "Function"
            [] kind = "type_declaration" -> "Struct"
            [] OTHER -> "None")
    [] OTHER -> "None"

\* The 50 of `if chunk_content.len() >= 50`.
MinChunkBytes == 50

\* extract_chunks_recursive without its size test: every mapped node is kept.
RECURSIVE extract_chunks_recursive_NoSizeTest(_, _, _, _)
extract_chunks_recursive_NoSizeTest(nodes, i, language, acc) ==
  IF i > Len(nodes) THEN acc
  ELSE LET node == nodes[i]
           chunk_type == node_to_chunk_type(node.kind, language)
       IN extract_chunks_recursive_NoSizeTest(nodes, i + 1, language,
            IF chunk_type # "None"
              THEN Append(acc,
                     [file_path |-> file_path, language |-> language,
                      chunk_type |-> chunk_type, name |-> node.name,
                      start_byte |-> node.start_byte, end_byte |-> node.end_byte,
                      start_line |-> LineOf(node.start_byte),
                      end_line |-> LineOf(node.end_byte),
                      content |-> Slice(node.start_byte, node.end_byte)])
              ELSE acc)

\* Chunker::extract_chunks_recursive over the nodes from the i-th on.
RECURSIVE extract_chunks_recursive(_, _, _, _)
extract_chunks_recursive(nodes, i, language, acc) ==
  IF i > Len(nodes) THEN acc
  ELSE LET node == nodes[i]
           chunk_type == node_to_chunk_type(node.kind, language)
           chunk_content == Slice(node.start_byte, node.end_byte)
       IN extract_chunks_recursive(nodes, i + 1, language,
            IF chunk_type # "None" /\ Len(chunk_content) >= MinChunkBytes
              THEN Append(acc,
                     [file_path |-> file_path, language |-> language,
                      chunk_type |-> chunk_type, name |-> node.name,
                      start_byte |-> node.start_byte, end_byte |-> node.end_byte,
                      start_line |-> LineOf(node.start_byte),
                      end_line |-> LineOf(node.end_byte),
                      content |-> chunk_content])
              ELSE acc)

\* usize::MAX, as far as the integers of the model go: above every length
\* and every chunk size.
UsizeMax == 2147483647
\* a - b on usize without overflow checks.
WrappingSub(a, b) == IF a >= b THEN a - b ELSE UsizeMax - (b - a) + 1

\* An overlap of a quarter window whatever overlap_ratio says.
Overlap_QuarterWindow == chunker.max_chunk_size \div 4

\* (self.max_chunk_size as f32 * self.overlap_ratio) as usize
Overlap == (chunker.max_chunk_size * chunker.overlap_ratio.n) \div chunker.overlap_ratio.d
\* A step of a whole window, as if there were no overlap.
Step_FullWindow == chunker.max_chunk_size

\* let step = self.max_chunk_size - overlap
Step == chunker.max_chunk_size - Overlap

UMin(a, b) == IF a <= b THEN a ELSE b

\* The while loop of chunk_sliding_window from `start` on: the chunks pushed,
\* or a panic (a slice off a character boundary; the subtraction of line 278
\* below zero in a build with overflow checks).
RECURSIVE SlidingLoop(_, _, _)
SlidingLoop(start, chunk_num, acc) ==
  IF ~(start < Len(text)) THEN [panic |-> FALSE, chunks |-> acc]
  ELSE
    LET end == UMin(start + chunker.max_chunk_size, Len(text))
    IN IF ~IsCharBoundary(start) \/ ~IsCharBoundary(end)
         THEN [panic |-> TRUE, chunks |-> acc]
       ELSE
         LET pushed ==
               Append(acc,
                 [file_path |-> file_path, language |-> from_path(ChunkExt[file_path]),
                  chunk_type |-> "Block", name |-> <<"block", chunk_num>>,
                  start_byte |-> start, end_byte |-> end,
                  start_line |-> LineOf(start), end_line |-> LineOf(end),
                  content |-> Slice(start, end)])
             next == start + Step
         IN IF next > Len(text) /\ overflow_checks
              THEN [panic |-> TRUE, chunks |-> pushed]
            ELSE IF WrappingSub(Len(text), next) < chunker.max_chunk_size \div 4
              THEN [panic |-> FALSE, chunks |-> pushed]
            ELSE SlidingLoop(next, chunk_num + 1, pushed)

\* Chunker::chunk_sliding_window
chunk_sliding_window ==
  IF text = <<>> THEN [panic |-> FALSE, chunks |-> <<>>]
  ELSE SlidingLoop(0, 0, <<>>)

\* Chunker::chunk_with_tree_sitter: Err, or the chunks of the tree.
chunk_with_tree_sitter(language) ==
  IF ~parse.ok THEN [err |-> TRUE, chunks |-> <<>>]
  ELSE [err |-> FALSE,
        chunks |-> extract_chunks_recursive(parse.nodes, 1, language, <<>>)]

\* A chunk_file that appends the blocks of the sliding window to the chunks
\* of the tree instead of choosing between them.
chunk_file_AstThenBlocks ==
  LET language == from_path(ChunkExt[file_path]) IN
    IF language = "Unknown" THEN chunk_sliding_window
    ELSE LET ast == chunk_with_tree_sitter(language)
         IN [panic |-> chunk_sliding_window.panic,
             chunks |-> ast.chunks \o chunk_sliding_window.chunks]

\* Chunker::chunk_file
chunk_file ==
  LET language == from_path(ChunkExt[file_path]) IN
    IF language = "Unknown" THEN chunk_sliding_window
    ELSE LET ast == chunk_with_tree_sitter(language)
         IN IF ~ast.err /\ ast.chunks # <<>>
              THEN [panic |-> FALSE, chunks |-> ast.chunks]
              ELSE chunk_sliding_window

ChunkFile ==
  /\ chpc = "input"
  /\ chpc' = "done"
  /\ outcome' = IF chunk_file.panic THEN "panic" ELSE "ok"
  /\ chunksOut' = IF chunk_file.panic THEN <<>> ELSE chunk_file.chunks
  /\ UNCHANGED <<chunker, file_path, text, parse, overflow_checks>>
  /\ UNCHANGED <<ixvars, cavars, vsvars, rkvars, wtvars, smvars>>

ChInit ==
  /\ chunker \in Chunkers
  /\ file_path \in ChunkPaths
  /\ text \in Contents
  /\ parse \in IF from_path(ChunkExt[file_path]) = "Unknown"
                 THEN {ParseFailed}
                 ELSE {ParseFailed} \cup {[ok |-> TRUE, nodes |-> t] : t \in Trees}
  /\ overflow_checks \in BOOLEAN
  /\ chpc = "input" /\ outcome = "none" /\ chunksOut = <<>>

ChunkInit ==
  IxIdle /\ calls = <<>> /\ VsInit /\ RkIdle /\ WtIdle /\ ChInit /\ SemIdle

ChunkNext == ChunkFile

SpecChunk == ChunkInit /\ [][ChunkNext]_vars

\* ------------------------------------------ SemanticIndexer::index_files
\* const BATCH_SIZE: usize = 32
BATCH_SIZE == 32

\* The call has begun.  Each file is named by its position in `files` and
\* described by what chunk_file does on it: it panics, or it returns n
\* chunks; `cut` says that byte 500 of its first chunk's content lies inside
\* a character.  The directory holds nothing, the index of an earlier run of
\* two chunks, or that index with a metadata.json that does not parse.
SemInit ==
  /\ IxIdle /\ calls = <<>> /\ RkIdle /\ WtIdle /\ ChIdle
  /\ sfiles \in UNION { [1..k ->
         {[chunked |-> "panic", n |-> 0, cut |-> FALSE],
          [chunked |-> "ok", n |-> 1, cut |-> TRUE]}
         \cup {[chunked |-> "ok", n |-> n, cut |-> FALSE] :
                 n \in {0, 1, MaxChunksPerFile - 1, MaxChunksPerFile}}] :
       k \in 0..MaxFiles }
  /\ before \in
       { [vectorsFile |-> NoVectorsFile, metadataFile |-> NoMetadataFile],
         [vectorsFile |-> [present |-> TRUE, keys |-> Put(Put(EmptyMap, 0, 1), 1, 2)],
          metadataFile |-> [state |-> "ok", rows |-> <<1, 2>>]],
         [vectorsFile |-> [present |-> TRUE, keys |-> Put(Put(EmptyMap, 0, 1), 1, 2)],
          metadataFile |-> [state |-> "corrupt", rows |-> <<>>]] }
  /\ vectorsFile = before.vectorsFile /\ metadataFile = before.metadataFile
  /\ store = "closed" /\ index = EmptyMap /\ capacity = 0 /\ metadata = <<>>
  /\ addlog = <<>> /\ fresh = FALSE /\ chunks = 0
  /\ spc = "chunk" /\ all_chunks = <<>>
  /\ sloop = [pos |-> 1, next |-> 1, batch_end |-> 0]
  /\ sem_stats = [files_processed |-> 0, chunks_created |-> 0,
                  embeddings_generated |-> 0]
  /\ hsearch = NoSearch

\* One iteration of `for (path, content) in files`.  chunk_file has no path
\* that returns Err (C19), so the Err arm is never taken; a panic inside
\* chunk_file unwinds through index_files.
ChunkLoop ==
  /\ spc = "chunk" /\ sloop.pos <= Len(sfiles)
  /\ LET f == sfiles[sloop.pos] IN
       IF f.chunked = "panic" THEN
         /\ spc' = "panic"
         /\ UNCHANGED <<all_chunks, sloop, sem_stats>>
       ELSE
         /\ sem_stats' = [sem_stats EXCEPT !.files_processed = @ + 1]
         /\ all_chunks' = all_chunks \o [j \in 1..f.n |-> 100 * sloop.pos + j]
         /\ sloop' = [sloop EXCEPT !.pos = @ + 1]
         /\ UNCHANGED spc
  /\ UNCHANGED <<sfiles, before, hsearch>>
  /\ UNCHANGED <<ixvars, cavars, vsvars, rkvars, wtvars, chvars>>

\* From `stats.chunks_created = all_chunks.len()` to the batch loop: the
\* early return, ensure_embedder and ensure_vector_store (VectorStore::new).
AfterChunks(initOk) ==
  /\ spc = "chunk" /\ sloop.pos > Len(sfiles)
  /\ sem_stats' = [sem_stats EXCEPT !.chunks_created = Len(all_chunks)]
  /\ IF all_chunks = <<>> THEN
       /\ spc' = "done"
       /\ UNCHANGED <<store, index, capacity, metadata>>
     ELSE IF ~initOk THEN
       /\ spc' = "error"
       /\ UNCHANGED <<store, index, capacity, metadata>>
     ELSE
       /\ spc' = "batch"
       /\ store' = "open"
       /\ metadata' = IF metadataFile.state = "ok" THEN metadataFile.rows ELSE <<>>
       /\ index' = IF vectorsFile.present THEN vectorsFile.keys ELSE EmptyMap
       /\ capacity' = IF vectorsFile.present
                        THEN Cardinality(DOMAIN vectorsFile.keys) ELSE 0
  /\ UNCHANGED <<vectorsFile, metadataFile, addlog, fresh, chunks>>
  /\ UNCHANGED <<sfiles, all_chunks, sloop, before, hsearch>>
  /\ UNCHANGED <<ixvars, cavars, rkvars, wtvars, chvars>>

\* EmbedBatch with a store.save() at the head of every batch.
EmbedBatch_SavesEveryBatch(embedOk) ==
  /\ spc = "batch" /\ sloop.next <= Len(all_chunks)
  /\ vectorsFile' = [present |-> TRUE, keys |-> index]
  /\ metadataFile' = [state |-> "ok", rows |-> metadata]
  /\ IF ~embedOk THEN spc' = "error" /\ UNCHANGED <<sloop, sem_stats>>
     ELSE /\ spc' = "add"
          /\ sloop' = [sloop EXCEPT !.batch_end =
                         UMin(sloop.next + BATCH_SIZE - 1, Len(all_chunks))]
          /\ sem_stats' = [sem_stats EXCEPT !.embeddings_generated =
                             @ + (sloop'.batch_end - sloop.next + 1)]
  /\ UNCHANGED <<store, index, capacity, metadata, addlog, fresh, chunks>>
  /\ UNCHANGED <<sfiles, all_chunks, before, hsearch>>
  /\ UNCHANGED <<ixvars, cavars, rkvars, wtvars, chvars>>

\* The head of one iteration of `for .. in all_chunks.chunks(BATCH_SIZE)`:
\* the texts, whose `&chunk.content[..len.min(500)]` panics off a character
\* boundary, and embedder.embed_batch, which gives one embedding per text.
EmbedBatch(embedOk) ==
  /\ spc = "batch" /\ sloop.next <= Len(all_chunks)
  /\ LET end == UMin(sloop.next + BATCH_SIZE - 1, Len(all_chunks))
         cuts == \E k \in sloop.next..end :
                   sfiles[all_chunks[k] \div 100].cut /\ all_chunks[k] % 100 = 1
     IN IF cuts THEN spc' = "panic" /\ UNCHANGED <<sloop, sem_stats>>
        ELSE IF ~embedOk THEN spc' = "error" /\ UNCHANGED <<sloop, sem_stats>>
        ELSE /\ spc' = "add"
             /\ sloop' = [sloop EXCEPT !.batch_end = end]
             /\ sem_stats' = [sem_stats EXCEPT
                                !.embeddings_generated = @ + (end - sloop.next + 1)]
  /\ UNCHANGED <<sfiles, all_chunks, before, hsearch>>
  /\ UNCHANGED <<ixvars, cavars, vsvars, rkvars, wtvars, chvars>>

\* One iteration of `for (chunk, embedding) in chunk_batch.iter().zip(..)`:
\* store.add(embedding, metadata)?, with the answers of usearch.
AddChunk(reserveOk, insertOk) ==
  /\ spc = "add"
  /\ LET c == all_chunks[sloop.next]
         key == add_Key(metadata)
         needReserve == key >= capacity
         reserved == ~needReserve \/ reserveOk
         inserted == reserved /\ insertOk /\ key \notin DOMAIN index
     IN
       /\ capacity' = IF needReserve /\ reserveOk
                        THEN Max(capacity + ReserveStep, ReserveStep)
                        ELSE capacity
       /\ index' = IF inserted THEN Put(index, key, c) ELSE index
       /\ metadata' = IF inserted THEN Append(metadata, c)
                                  ELSE add_OnFailure(metadata, c)
       /\ addlog' = Append(addlog, [ok |-> inserted, key |-> key, chunk |-> c])
       /\ spc' = IF ~inserted THEN "error"
                 ELSE IF sloop.next = sloop.batch_end THEN "batch" ELSE "add"
       /\ sloop' = IF inserted THEN [sloop EXCEPT !.next = @ + 1] ELSE sloop
  /\ UNCHANGED <<store, vectorsFile, metadataFile, fresh, chunks>>
  /\ UNCHANGED <<sfiles, all_chunks, sem_stats, before, hsearch>>
  /\ UNCHANGED <<ixvars, cavars, rkvars, wtvars, chvars>>

\* store.save()? after the last batch: index.save, then fs::write.
SaveStore(indexOk, writeOk) ==
  /\ spc = "batch" /\ sloop.next > Len(all_chunks)
  /\ vectorsFile' = IF indexOk THEN [present |-> TRUE, keys |-> index]
                    ELSE vectorsFile
  /\ metadataFile' = IF indexOk /\ writeOk THEN [state |-> "ok", rows |-> metadata]
                     ELSE metadataFile
  /\ spc' = IF indexOk /\ writeOk THEN "done" ELSE "error"
  /\ UNCHANGED <<store, index, capacity, metadata, addlog, fresh, chunks>>
  /\ UNCHANGED <<sfiles, all_chunks, sloop, sem_stats, before, hsearch>>
  /\ UNCHANGED <<ixvars, cavars, rkvars, wtvars, chvars>>

SemNext ==
  \/ ChunkLoop
  \/ \E initOk \in BOOLEAN : AfterChunks(initOk)
  \/ \E embedOk \in BOOLEAN : EmbedBatch(embedOk)
  \/ \E reserveOk, insertOk \in BOOLEAN : AddChunk(reserveOk, insertOk)
  \/ \E indexOk, writeOk \in BOOLEAN : SaveStore(indexOk, writeOk)

SpecSem == SemInit /\ [][SemNext]_vars

\* `seekr index --semantic` is run again on the same directory after a run
\* that succeeded: a new process, SemanticIndexer::new on what the first run
\* left in ~/.seekr, the same files collected, index_files called on them.
\* Neither main nor index_files clears the store, with or without --force.
IndexSemanticAgain ==
  /\ spc = "done" /\ runs < MaxRuns
  /\ runs' = runs + 1
  /\ before' = [vectorsFile |-> vectorsFile, metadataFile |-> metadataFile]
  /\ store' = "closed" /\ index' = EmptyMap /\ capacity' = 0 /\ metadata' = <<>>
  /\ addlog' = <<>>
  /\ spc' = "chunk" /\ all_chunks' = <<>>
  /\ sloop' = [pos |-> 1, next |-> 1, batch_end |-> 0]
  /\ sem_stats' = [files_processed |-> 0, chunks_created |-> 0,
                   embeddings_generated |-> 0]
  /\ UNCHANGED <<vectorsFile, metadataFile, fresh, chunks, sfiles, hsearch>>
  /\ UNCHANGED <<now, fs, files, cacheDisk, idx, pc, mode, pos, writer, cur,
                 stats, changed>>
  /\ UNCHANGED <<cavars, rkvars, wtvars, chvars>>

SemAgainNext == SemNext \/ IndexSemanticAgain

SpecSemAgain == SemInit /\ [][SemAgainNext]_vars

\* ----------------------------------------- main, Commands::Search --hybrid
index_exists_Always == TRUE

\* SemanticIndexer::index_exists
index_exists == vectorsFile.present

\* PathsOfList: the file_paths of a result list, in order.
PathsOfList(list) == [i \in DOMAIN list |-> list[i].file_path]

\* The command has been given.  lexical and semantic are what the two
\* searches find, each at most limit * 2 results.
SearchInit ==
  /\ IxIdle /\ calls = <<>> /\ WtIdle /\ ChIdle
  /\ store = "closed" /\ index = EmptyMap /\ capacity = 0 /\ metadata = <<>>
  /\ addlog = <<>> /\ fresh = FALSE /\ chunks = 0
  /\ \E semantic_index \in BOOLEAN :
       /\ vectorsFile = IF semantic_index
                          THEN [present |-> TRUE, keys |-> Put(EmptyMap, 0, 1)]
                          ELSE NoVectorsFile
       /\ metadataFile = IF semantic_index THEN [state |-> "ok", rows |-> <<1>>]
                                           ELSE NoMetadataFile
  /\ config \in [alpha : {Rat(1, 2)}, rrf_k : {RrfK}, use_rrf : {TRUE}]
  /\ limit \in 0..MaxLimit
  /\ lexical \in Lists("Lexical") /\ Len(lexical) <= limit * 2
  /\ lexical # <<>> => lexical[1].file_path = "x"
  /\ semantic \in Lists("Semantic") /\ Len(semantic) <= limit * 2
  /\ ranked = "input" /\ fused = <<>> /\ walk_root = <<>>
  /\ spc = "idle" /\ sfiles = <<>> /\ all_chunks = <<>>
  /\ sloop = [pos |-> 1, next |-> 1, batch_end |-> 0]
  /\ sem_stats = [files_processed |-> 0, chunks_created |-> 0,
                  embeddings_generated |-> 0]
  /\ before = [vectorsFile |-> NoVectorsFile, metadataFile |-> NoMetadataFile]
  /\ hsearch \in [pc : {"start"}, lexical_index : BOOLEAN, json : BOOLEAN,
                   embedder : {FALSE}, ranker : {FALSE}, notice : {FALSE},
                   shown : {"none"}, printed : {<<>>}, exit : {"none"}]

\* Indexer::open(..)? and indexer.search(&query, limit * 2)?; the query may
\* not parse.
HsLexical(queryOk) ==
  /\ hsearch.pc = "start"
  /\ hsearch' = IF hsearch.lexical_index /\ queryOk
                  THEN [hsearch EXCEPT !.pc = "check"]
                  ELSE [hsearch EXCEPT !.pc = "done", !.exit = "err"]
  /\ UNCHANGED <<spc, sfiles, all_chunks, sloop, sem_stats, before>>
  /\ UNCHANGED <<ixvars, cavars, vsvars, rkvars, wtvars, chvars>>

\* SemanticIndexer::new(..)? and the `if !semantic_indexer.index_exists()`
\* block: the notice, print_results(&bm25_results)?, return Ok(()).
HsCheck(dirOk) ==
  /\ hsearch.pc = "check"
  /\ hsearch' =
       IF ~dirOk THEN [hsearch EXCEPT !.pc = "done", !.exit = "err"]
       ELSE IF ~index_exists
         THEN [hsearch EXCEPT !.pc = "done", !.notice = TRUE,
                              !.shown = "lexical",
                              !.printed = PathsOfList(lexical), !.exit = "ok"]
       ELSE [hsearch EXCEPT !.pc = "semantic"]
  /\ UNCHANGED <<spc, sfiles, all_chunks, sloop, sem_stats, before>>
  /\ UNCHANGED <<ixvars, cavars, vsvars, rkvars, wtvars, chvars>>

\* semantic_indexer.search(&query, limit * 2)?: ensure_embedder first.
HsSemantic(searchOk) ==
  /\ hsearch.pc = "semantic"
  /\ hsearch' = IF searchOk
                  THEN [hsearch EXCEPT !.pc = "fuse", !.embedder = TRUE]
                  ELSE [hsearch EXCEPT !.pc = "done", !.embedder = TRUE,
                                       !.exit = "err"]
  /\ UNCHANGED <<spc, sfiles, all_chunks, sloop, sem_stats, before>>
  /\ UNCHANGED <<ixvars, cavars, vsvars, rkvars, wtvars, chvars>>

\* hybrid_ranker.fuse(lexical, semantic_ranked, limit) and the printing of
\* the fused results.
HsFuse ==
  /\ hsearch.pc = "fuse"
  /\ \E order \in Orders(DOMAIN rrf_scores) : fused' = Collect(rrf_scores, order)
  /\ ranked' = "done"
  /\ hsearch' = [hsearch EXCEPT !.pc = "done", !.ranker = TRUE, !.shown = "fused",
                                !.printed = PathsOfList(fused'), !.exit = "ok"]
  /\ UNCHANGED <<config, lexical, semantic, limit, walk_root>>
  /\ UNCHANGED <<spc, sfiles, all_chunks, sloop, sem_stats, before>>
  /\ UNCHANGED <<ixvars, cavars, vsvars, wtvars, chvars>>

SearchNext ==
  \/ \E queryOk \in BOOLEAN : HsLexical(queryOk)
  \/ \E dirOk \in BOOLEAN : HsCheck(dirOk)
  \/ \E searchOk \in BOOLEAN : HsSemantic(searchOk)
  \/ HsFuse

SpecSearch == SearchInit /\ [][SearchNext]_vars

\* ===================================================== claims on the indexer
\* Supported files that exist now, and those of them read_to_string accepts.
SupportedFiles == {p \in Paths : fs[p].exists /\ Supported(p)}
Utf8Files == {p \in SupportedFiles : p \notin NonUtf8}
ReadableMtime == {p \in Paths : MtimeSecs(p) # NoMtime}
DocsOf(p) == {i \in 1..Len(idx) : idx[i].file_path = p}
NewestDoc(p) == idx[CHOOSE i \in DocsOf(p) : \A j \in DocsOf(p) : j <= i]

\* A command has ended and no file has changed since it started; stats and
\* mode describe it, stats.prev the command before it, stats.S the files
\* changed between the two.
Settled == pc = "idle" /\ runs > 0 /\ changed = {}

\* C1: whenever no command is running, a file with mtime t in the persisted
\* ModTimeCache and a document in the index has, as its newest document, the
\* content it had on disk at mtime t (content is named by the second it was
\* written in, so that content is t).
C1_CacheReflectsIndexedContent ==
  pc = "idle" =>
    \A p \in DOMAIN cacheDisk :
      DocsOf(p) # {} => NewestDoc(p).content = cacheDisk[p]

ChangedFiles == {p \in stats.S : fs[p].exists}
\* The documents the last incremental run appended.
Appended == SubSeq(idx, Len(idx) - stats.files_indexed + 1, Len(idx))

\* C3 as stated: after an `index` run, with exactly the files of S created or
\* written since, the next incremental run indexes |S| files, updates their
\* cache entries and skips every other supported file as Unchanged.
C3_ReindexesExactlyS ==
  (Settled /\ mode = "incr" /\ stats.prev \in {"incr", "force"}) =>
    /\ stats.files_indexed = Cardinality(ChangedFiles)
    /\ \A p \in ChangedFiles : p \in DOMAIN cacheDisk /\ cacheDisk[p] = fs[p].mtime
    /\ stats.skipped = Cardinality(SupportedFiles \ ChangedFiles)

\* C3 amended: when every supported UTF-8 file has a readable mtime, the run
\* adds exactly one document per file of S, with its current content, updates
\* the cache entries of S and skips every other supported UTF-8 file as
\* Unchanged; a non-UTF-8 file is never added.
C3_ReindexesExactlySReadable ==
  (Settled /\ mode = "incr" /\ stats.prev \in {"incr", "force"}
     /\ Utf8Files \subseteq ReadableMtime) =>
    /\ stats.files_indexed = Cardinality(ChangedFiles)
    /\ {Appended[i] : i \in 1..Len(Appended)}
         = {Doc(p, fs[p].content) : p \in ChangedFiles}
    /\ \A p \in ChangedFiles : p \in DOMAIN cacheDisk /\ cacheDisk[p] = fs[p].mtime
    /\ stats.skipped >= Cardinality(Utf8Files \ ChangedFiles)
    /\ stats.skipped <= Cardinality(SupportedFiles \ ChangedFiles)

C3_Witness ==
  /\ Settled /\ mode = "incr" /\ stats.prev \in {"incr", "force"}
  /\ Utf8Files \subseteq ReadableMtime
  /\ Cardinality(ChangedFiles) = 1 /\ Cardinality(Utf8Files) = 2
  /\ stats.files_indexed = 1 /\ stats.skipped >= 1

\* What `index --force` leaves: one document per supported UTF-8 file, with
\* its current content, and one cache entry per file with a readable mtime.
ForceRebuilt ==
  /\ Len(idx) = Cardinality(Utf8Files)
  /\ {idx[i] : i \in 1..Len(idx)} = {Doc(p, fs[p].content) : p \in Utf8Files}
  /\ DOMAIN cacheDisk = {p \in Paths : fs[p].exists} \cap ReadableMtime
  /\ \A p \in DOMAIN cacheDisk : cacheDisk[p] = fs[p].mtime

\* C5 as stated: after `index --force` index and cache are a function of the
\* directory alone, and the incremental run that follows indexes 0 files.
C5_ForceRebuildsThenNothingToDo ==
  /\ (Settled /\ mode = "force") => ForceRebuilt
  /\ (Settled /\ mode = "incr" /\ stats.prev = "force" /\ stats.S = {}) =>
       stats.files_indexed = 0

\* C5 amended: the same, except that the following incremental run adds again
\* every supported UTF-8 file whose mtime cannot be read, and nothing else.
C5_ForceRebuildsThenOnlyUnreadableMtimes ==
  /\ (Settled /\ mode = "force") => ForceRebuilt
  /\ (Settled /\ mode = "incr" /\ stats.prev = "force" /\ stats.S = {}) =>
       /\ stats.files_indexed = Cardinality(Utf8Files \ ReadableMtime)
       /\ stats.skipped = Cardinality(SupportedFiles \cap ReadableMtime)

C5_Witness ==
  /\ Settled /\ mode = "incr" /\ stats.prev = "force" /\ stats.S = {}
  /\ runs = 3 /\ now > 1
  /\ Cardinality(SupportedFiles) = 3
  /\ stats.files_indexed = 0 /\ stats.skipped = 3 /\ Len(idx) = 2


\* =================================================== claims on the FileCache
CheckUpdateCheck ==
  /\ Len(calls) = 3
  /\ calls[1].op = "check" /\ calls[2].op = "update" /\ calls[3].op = "check"
  /\ calls[1].path = calls[2].path /\ calls[2].path = calls[3].path
  /\ MtimeSecs(calls[1].path) # NoMtime

\* C4: after check_file(p), update_file(p), check_file(p) with no file system
\* change in between and a readable mtime, the second check answered
\* Unchanged; the first answered New when p had no entry and Modified when
\* the file was newer than its entry.
C4_CheckUpdateCheckUnchanged ==
  CheckUpdateCheck =>
    /\ calls[3].result = "Unchanged"
    /\ ~calls[1].known => calls[1].result = "New"
    /\ (calls[1].known /\ MtimeSecs(calls[1].path) > calls[1].stored)
         => calls[1].result = "Modified"

C4_Witness ==
  /\ CheckUpdateCheck
  /\ calls[1].result = "Modified" /\ calls[3].result = "Unchanged"
  /\ calls[3].stored = MtimeSecs(calls[1].path)


\* ================================================= claims on the VectorStore
\* The successful calls of addlog, in call order.
RECURSIVE Succeeded(_)
Succeeded(log) ==
  IF log = <<>> THEN <<>>
  ELSE IF log[1].ok THEN <<log[1]>> \o Succeeded(Tail(log))
  ELSE Succeeded(Tail(log))

\* C6: on a store opened on an empty directory, after N successful add calls
\* (failed ones in between or not) metadata has N rows, the i-th successful
\* call returned key i (from 0), and metadata[k] is the row passed with the
\* call that returned k.
C6_KeyMetadataParity ==
  (store # "closed" /\ fresh) =>
    LET ok == Succeeded(addlog) IN
      /\ Len(metadata) = Len(ok)
      /\ \A i \in 1..Len(ok) :
           /\ ok[i].key = i - 1
           /\ metadata[ok[i].key + 1] = ok[i].chunk

C6_Witness ==
  /\ store = "open" /\ fresh
  /\ Len(addlog) = 4 /\ Len(Succeeded(addlog)) = 2
  /\ ~addlog[1].ok /\ addlog[2].ok /\ ~addlog[3].ok /\ addlog[4].ok

AddFailed == Len(addlog') = Len(addlog) + 1 /\ ~addlog'[Len(addlog')].ok

\* C7: an add that fails leaves metadata and the keys (and vectors) of the
\* index as they were, and the next successful add returns the key the failed
\* call would have used.
C7_FailedAddLeavesStore ==
  /\ [][AddFailed => (metadata' = metadata /\ index' = index)]_vars
  /\ [](\A i \in 1..Len(addlog) : \A j \in (i + 1)..Len(addlog) :
          (~addlog[i].ok /\ addlog[j].ok
             /\ \A m \in (i + 1)..(j - 1) : ~addlog[m].ok)
          => addlog[j].key = addlog[i].key)

C7_Witness ==
  /\ Len(addlog) = 3
  /\ addlog[1].ok /\ ~addlog[2].ok /\ addlog[3].ok
  /\ addlog[3].key = 1 /\ Len(metadata) = 2 /\ DOMAIN index = {0, 1}

\* C8: in an open store, however it was reopened, the keys of the index are
\* exactly 0..metadata.len()-1 and key k holds the vector of row k.
C8_KeysAreRows ==
  store = "open" =>
    /\ DOMAIN index = 0..(Len(metadata) - 1)
    /\ \A k \in DOMAIN index : metadata[k + 1] = index[k]


\* ================================================ claims on the HybridRanker
RECURSIVE RSum(_, _)
\* The sum of 1/(rrf_k + i) over the positions i of the set I (i is 1-based,
\* so this is 1/(rrf_k + rank + 1) for the 0-based rank).
RSum(I, k) ==
  IF I = {} THEN RZero
  ELSE LET i == CHOOSE x \in I : TRUE
       IN RAdd([n |-> 1, d |-> k + i], RSum(I \ {i}, k))

Positions(list, p) == {i \in DOMAIN list : list[i].file_path = p}

\* The fused RRF score the spec gives file_path p.
RrfExpected(p) ==
  RAdd(RMul(config.alpha, RSum(Positions(lexical, p), config.rrf_k)),
       RMul(RSub(ROne, config.alpha), RSum(Positions(semantic, p), config.rrf_k)))

Min2(a, b) == IF a <= b THEN a ELSE b

\* C9: with use_rrf, fuse returns min(limit, number of distinct file_paths)
\* results with distinct file_paths, each scored alpha * sum 1/(k+i+1) over its
\* lexical ranks + (1-alpha) * sum 1/(k+j+1) over its semantic ranks, in
\* descending score order, and no file_path left out scores more than one
\* returned.
C9_RrfScoresSortedTruncated ==
  (ranked = "done" /\ config.use_rrf) =>
    /\ Len(fused) = Min2(limit, Cardinality(FusedPaths))
    /\ \A i \in DOMAIN fused :
         /\ fused[i].file_path \in FusedPaths
         /\ fused[i].score = RrfExpected(fused[i].file_path)
         /\ \A j \in DOMAIN fused :
              /\ i # j => fused[i].file_path # fused[j].file_path
              /\ i < j => ~RLess(fused[i].score, fused[j].score)
         /\ \A p \in FusedPaths \ {fused[j].file_path : j \in DOMAIN fused} :
              ~RLess(fused[i].score, RrfExpected(p))

C9_Witness ==
  /\ ranked = "done" /\ config.use_rrf /\ config.alpha = Rat(1, 4)
  /\ Len(lexical) = 2 /\ Len(semantic) = 2 /\ limit = 2
  /\ Cardinality(FusedPaths) = 3
  /\ Len(fused) = 2
  /\ Cardinality(Positions(lexical, fused[1].file_path)) = 1
  /\ Cardinality(Positions(semantic, fused[1].file_path)) = 1
  /\ RLess(fused[2].score, fused[1].score)

\* The first-seen occurrence of p: the lexical list before the semantic one,
\* each in list order.
FirstSeen(p) ==
  IF Positions(lexical, p) # {}
    THEN lexical[CHOOSE i \in Positions(lexical, p) :
                   \A j \in Positions(lexical, p) : i <= j]
    ELSE semantic[CHOOSE i \in Positions(semantic, p) :
                    \A j \in Positions(semantic, p) : i <= j]

\* C10: in both modes every returned record has source Hybrid and the
\* start_line, end_line, content_preview and name of the first-seen
\* occurrence of its file_path; with use_rrf its score is the fused score,
\* not the score of that occurrence.
C10_FirstSeenRecordKept ==
  ranked = "done" =>
    \A i \in DOMAIN fused :
      LET first == FirstSeen(fused[i].file_path) IN
        /\ fused[i].source = "Hybrid"
        /\ fused[i].start_line = first.start_line
        /\ fused[i].end_line = first.end_line
        /\ fused[i].content_preview = first.content_preview
        /\ fused[i].name = first.name
        /\ config.use_rrf => fused[i].score = RrfExpected(fused[i].file_path)

C10_Witness ==
  /\ ranked = "done" /\ ~config.use_rrf
  /\ \E i \in DOMAIN fused :
       /\ Cardinality(Positions(lexical, fused[i].file_path)) = 2
       /\ Positions(semantic, fused[i].file_path) # {}
       /\ fused[i].content_preview = <<"Lexical", 1>>
       /\ fused[i].source = "Hybrid"

\* The place of p in insertion order: lexical positions first, then the
\* semantic ones.
InsertRank(p) ==
  IF Positions(lexical, p) # {}
    THEN CHOOSE i \in Positions(lexical, p) : \A j \in Positions(lexical, p) : i <= j
    ELSE Len(lexical)
           + (CHOOSE i \in Positions(semantic, p) :
                \A j \in Positions(semantic, p) : i <= j)

\* C11: of two returned documents with equal fused scores the one inserted
\* first (earlier in the lexical list, then earlier in the semantic list)
\* comes first, so the returned sequence is a function of the inputs.
C11_TiesByInsertionOrder ==
  ranked = "done" =>
    \A i, j \in DOMAIN fused :
      (i < j /\ fused[i].score = fused[j].score)
        => InsertRank(fused[i].file_path) < InsertRank(fused[j].file_path)

\* ---- C12
InBoth(p) == Positions(lexical, p) # {} /\ Positions(semantic, p) # {}
InOne(p) == p \in FusedPaths /\ ~InBoth(p)
AllPositions(p) == Positions(lexical, p) \cup Positions(semantic, p)
BestPosition(p) == CHOOSE i \in AllPositions(p) : \A j \in AllPositions(p) : i <= j
\* Exactly one occurrence over the two lists.
Once(p) ==
  Cardinality(Positions(lexical, p)) + Cardinality(Positions(semantic, p)) = 1
Returned(p) == \E i \in DOMAIN fused : fused[i].file_path = p
\* q is returned only behind p.
Above(p, q) ==
  Returned(q) =>
    \E i, j \in DOMAIN fused :
      i < j /\ fused[i].file_path = p /\ fused[j].file_path = q
DefaultRrf ==
  ranked = "done" /\ config.use_rrf /\ config.alpha = Rat(1, 2)
    /\ config.rrf_k = RrfK
PathsOf(list) == [i \in DOMAIN list |-> list[i].file_path]
DocExample ==
  PathsOf(lexical) = <<"x", "y", "z">> /\ PathsOf(semantic) = <<"y", "z", "w">>

\* C12 as stated: under default RRF a document of both lists is above every
\* document of only one list none of whose ranks is better than the first
\* one's best rank, of two documents of only one list the one with the
\* smaller rank is first, and for lexical = [x,y,z], semantic = [y,z,w] the
\* top is y and x is above w.
C12_BothListsOutrankOneList ==
  DefaultRrf =>
    /\ \A d, q \in FusedPaths :
         (InBoth(d) /\ InOne(q) /\ BestPosition(q) >= BestPosition(d))
           => Above(d, q)
    /\ \A a, b \in FusedPaths :
         (InOne(a) /\ InOne(b) /\ BestPosition(a) < BestPosition(b))
           => Above(a, b)
    /\ (DocExample /\ limit >= 4) =>
         fused[1].file_path = "y" /\ Above("x", "w") /\ Returned("w")

\* C12, amended: the same for a document of only one list that occurs
\* exactly once.
C12_BothListsOutrankSingleOccurrence ==
  DefaultRrf =>
    /\ \A d, q \in FusedPaths :
         (InBoth(d) /\ Once(q) /\ BestPosition(q) >= BestPosition(d))
           => Above(d, q)
    /\ \A a, b \in FusedPaths :
         (InOne(a) /\ Once(b) /\ BestPosition(a) < BestPosition(b))
           => Above(a, b)
    /\ (DocExample /\ limit >= 4) =>
         fused[1].file_path = "y" /\ Above("x", "w") /\ Returned("w")

C12_Witness ==
  /\ DefaultRrf /\ DocExample /\ limit = TestLimit
  /\ PathsOf(fused) = <<"y", "z", "x", "w">>

\* ---- C13
\* 1/(rrf_k + 1), the contribution of rank 0 with weight one.
TopScore == Rat(1, config.rrf_k + 1)
RLeq(a, b) == ~RLess(b, a)
OncePerList(p) ==
  Cardinality(Positions(lexical, p)) <= 1 /\ Cardinality(Positions(semantic, p)) <= 1

\* C13 as stated: every fused RRF score is strictly between 0 and 1/(k+1).
C13_RrfScoreStrictlyInside ==
  (ranked = "done" /\ config.use_rrf) =>
    \A i \in DOMAIN fused :
      RLess(RZero, fused[i].score) /\ RLess(fused[i].score, TopScore)

\* C13, amended: every fused RRF score is at least 0 and at most
\* alpha * sum of 1/(k+i+1) over the lexical ranks + (1-alpha) * the same sum
\* over the semantic ranks; it is 0 exactly when every list holding the
\* file_path has weight 0; for a file_path occurring at most once per list it
\* is at most 1/(k+1), and equal to 1/(k+1) at rank 0 in both lists.
C13_RrfScoreRange ==
  (ranked = "done" /\ config.use_rrf) =>
    \A i \in DOMAIN fused :
      LET p == fused[i].file_path
          sc == fused[i].score
      IN /\ RLeq(RZero, sc)
         /\ RLeq(sc, RAdd(RMul(config.alpha, RSum(DOMAIN lexical, config.rrf_k)),
                          RMul(RSub(ROne, config.alpha),
                               RSum(DOMAIN semantic, config.rrf_k))))
         /\ (sc = RZero) <=>
              /\ Positions(lexical, p) # {} => config.alpha = RZero
              /\ Positions(semantic, p) # {} => config.alpha = ROne
         /\ OncePerList(p) => RLeq(sc, TopScore)
         /\ (Positions(lexical, p) = {1} /\ Positions(semantic, p) = {1})
              => sc = TopScore

C13_Witness ==
  /\ ranked = "done" /\ config.use_rrf /\ config.alpha = Rat(1, 4)
  /\ Len(fused) = 2
  /\ Positions(lexical, fused[1].file_path) = {1}
  /\ Positions(semantic, fused[1].file_path) = {1}
  /\ fused[1].score = TopScore
  /\ RLess(RZero, fused[2].score) /\ RLess(fused[2].score, TopScore)

\* ---- C14
\* The list with one more occurrence of p behind its last entry.
WithOccurrence(list, p, source) ==
  Append(list, Result(p, Rat(1, 1), source, Len(list) + 1))

\* C14: for a returned document D of both lists, the RRF score of D for the
\* lexical list with a further occurrence of D appended, and for the semantic
\* list with one appended, is not smaller than the score fuse returned.
C14_RrfMonotoneInOccurrences ==
  (ranked = "done" /\ config.use_rrf) =>
    \A i \in DOMAIN fused :
      LET D == fused[i].file_path IN
        InBoth(D) =>
          /\ RLeq(fused[i].score,
                  rrf_fusion_scores(WithOccurrence(lexical, D, "Lexical"),
                                    semantic)[D].s)
          /\ RLeq(fused[i].score,
                  rrf_fusion_scores(lexical,
                                    WithOccurrence(semantic, D, "Semantic"))[D].s)

C14_Witness ==
  /\ ranked = "done" /\ config.use_rrf /\ config.alpha = Rat(1, 4)
  /\ Len(lexical) = 2 /\ Len(semantic) = 2 /\ Len(fused) >= 1
  /\ LET D == fused[1].file_path IN
       /\ Positions(lexical, D) = {1} /\ Positions(semantic, D) = {2}
       /\ RLess(fused[1].score,
                rrf_fusion_scores(WithOccurrence(lexical, D, "Lexical"),
                                  semantic)[D].s)
       /\ RLess(fused[1].score,
                rrf_fusion_scores(lexical,
                                  WithOccurrence(semantic, D, "Semantic"))[D].s)

\* ---- C15
ScoresOf(list) == {list[i].score : i \in DOMAIN list}
LeastOf(S) == CHOOSE x \in S : \A y \in S : RLeq(x, y)
GreatestOf(S) == CHOOSE x \in S : \A y \in S : RLeq(y, x)
\* The min-max normalized score of entry i of the list.
Normalized(list, i) ==
  LET lo == LeastOf(ScoresOf(list))
      hi == GreatestOf(ScoresOf(list))
  IN IF lo = hi THEN ROne
     ELSE RDiv(RSub(list[i].score, lo), RSub(hi, lo))

RECURSIVE NormSum(_, _)
\* The sum of the normalized scores of the entries I of the list.
NormSum(list, I) ==
  IF I = {} THEN RZero
  ELSE LET i == CHOOSE x \in I : TRUE
       IN RAdd(Normalized(list, i), NormSum(list, I \ {i}))

LinearExpected(p) ==
  RAdd(RMul(config.alpha, NormSum(lexical, Positions(lexical, p))),
       RMul(RSub(ROne, config.alpha), NormSum(semantic, Positions(semantic, p))))

\* C15: without use_rrf, every min-max normalized score is in [0,1], fuse
\* returns min(limit, number of distinct file_paths) results with distinct
\* file_paths, each scored alpha * the sum of its normalized lexical scores
\* + (1-alpha) * the sum of its normalized semantic scores, in descending
\* score order, and no file_path left out scores more than one returned.
C15_LinearScoresSortedTruncated ==
  (ranked = "done" /\ ~config.use_rrf) =>
    /\ \A i \in DOMAIN lexical :
         RLeq(RZero, Normalized(lexical, i)) /\ RLeq(Normalized(lexical, i), ROne)
    /\ \A i \in DOMAIN semantic :
         RLeq(RZero, Normalized(semantic, i)) /\ RLeq(Normalized(semantic, i), ROne)
    /\ Len(fused) = Min2(limit, Cardinality(FusedPaths))
    /\ \A i \in DOMAIN fused :
         /\ fused[i].file_path \in FusedPaths
         /\ fused[i].score = LinearExpected(fused[i].file_path)
         /\ \A j \in DOMAIN fused :
              /\ i # j => fused[i].file_path # fused[j].file_path
              /\ i < j => RLeq(fused[j].score, fused[i].score)
         /\ \A p \in FusedPaths \ {fused[j].file_path : j \in DOMAIN fused} :
              RLeq(LinearExpected(p), fused[i].score)

C15_Witness ==
  /\ ranked = "done" /\ ~config.use_rrf /\ config.alpha = Rat(1, 4)
  /\ Len(lexical) = 2 /\ Len(semantic) = 2 /\ limit = 2
  /\ lexical[1].score # lexical[2].score
  /\ semantic[1].score = semantic[2].score
  /\ Cardinality(FusedPaths) = 3 /\ Len(fused) = 2
  /\ InBoth(fused[1].file_path)
  /\ fused[1].score = ROne
  /\ fused[2].score = Rat(3, 4)

\* ---- C16
\* C16: normalize_scores applied to its own result returns that result, for
\* both lists of the call (empty, one entry, all scores equal or not).
C16_NormalizeIdempotent ==
  /\ normalize_scores(normalize_scores(lexical)) = normalize_scores(lexical)
  /\ normalize_scores(normalize_scores(semantic)) = normalize_scores(semantic)

C16_Witness ==
  /\ ranked = "done" /\ ~config.use_rrf
  /\ Len(lexical) = 3 /\ Len(semantic) = 3
  /\ normalize_scores(lexical) # lexical
  /\ normalize_scores(lexical)[2].score = Rat(1, 2)
  /\ normalize_scores(semantic)[2].score = Rat(1, 2)
  /\ normalize_scores(normalize_scores(lexical)) = normalize_scores(lexical)

\* =================================================== claims on the watcher
\* C17: no reindex starts between two accepted events less than debounce_ms
\* apart, at most one starts after the last of them, it starts only when no
\* event was sent for debounce_ms, never with pending_files empty, and once
\* pending_files is not empty a reindex does start.
C17_DebouncedSingleReindex ==
  /\ [](/\ ~split
        /\ startsSince <= 1
        /\ startGap >= DebounceTicks
        /\ wpc = "reindex" => pending_files # {})
  /\ [][(wpc = "recv" /\ wpc' = "reindex") =>
          (pending_files # {} /\ chan = <<>> /\ sinceRecv >= DebounceTicks
             /\ sinceSent >= DebounceTicks)]_vars
  /\ ((pending_files # {}) ~> (wpc = "reindex"))

C17_Witness ==
  /\ wpc = "reindex" /\ sent = 3 /\ startsSince = 1
  /\ pending_files = {"src/m.rs", "src/n.py"}
  /\ sinceIndexable = DebounceTicks /\ chan = <<>>

\* C18: a changed path is put into pending_files if and only if none of its
\* components starts with '.' and the lexical indexer supports its extension.
C18_WatcherAcceptsWhatIndexerSupports ==
  wpc = "recv" =>
    \A path \in seen :
      (path.name \in pending_files)
        <=> (~path.hidden /\ Language(path.ext) # "skip")

\* =================================================== claims on the chunker
\* C19: chunk_file returns Ok for every content and path, with at least one
\* chunk when the content is not empty and with none only when it is empty.
C19_NonEmptyContentGivesChunks ==
  chpc = "done" =>
    /\ outcome = "ok"
    /\ text # <<>> => chunksOut # <<>>
    /\ text = <<>> => chunksOut = <<>>

\* C20: every returned chunk has start_byte <= end_byte <= len(source), its
\* content is source[start_byte..end_byte], its start_line is the number of
\* newlines before start_byte plus 1, and start_line <= end_line.
C20_ChunkRoundTrip ==
  chpc = "done" =>
    \A i \in DOMAIN chunksOut :
      LET c == chunksOut[i] IN
        /\ 0 <= c.start_byte /\ c.start_byte <= c.end_byte
        /\ c.end_byte <= Len(text)
        /\ c.content = [j \in 1..(c.end_byte - c.start_byte) |->
                          text[c.start_byte + j]]
        /\ c.start_line
             = Cardinality({j \in 1..c.start_byte : text[j] = "\n"}) + 1
        /\ c.start_line <= c.end_line

C20_Witness ==
  /\ chpc = "done" /\ outcome = "ok" /\ Len(chunksOut) >= 3
  /\ chunksOut[2].chunk_type = "Block"
  /\ chunksOut[2].start_byte = 8 /\ chunksOut[2].end_byte = 16
  /\ chunksOut[2].start_line = 2 /\ chunksOut[2].end_line = 3
  /\ \E j \in DOMAIN text : text[j] = "lead"

\* The positions of parse.nodes whose kind maps to a ChunkType and whose
\* span has at least 50 bytes, in the order of the walk.
RECURSIVE LongMapped(_)
LongMapped(i) ==
  IF i > Len(parse.nodes) THEN <<>>
  ELSE LET node == parse.nodes[i]
           keep == /\ node_to_chunk_type(node.kind, from_path(ChunkExt[file_path]))
                        # "None"
                   /\ node.end_byte - node.start_byte >= MinChunkBytes
       IN (IF keep THEN <<i>> ELSE <<>>) \o LongMapped(i + 1)

\* C21: every non-Block chunk has at least 50 bytes of content; a mapped node
\* with a shorter span is not emitted, and the mapped nodes around it
\* (descendants, siblings) that are long enough are all emitted, in the
\* order of the walk.
C21_AstChunksAtLeast50Bytes ==
  (chpc = "done" /\ outcome = "ok") =>
    /\ \A i \in DOMAIN chunksOut :
         chunksOut[i].chunk_type # "Block" => Len(chunksOut[i].content) >= 50
    /\ (parse.ok /\ LongMapped(1) # <<>>) =>
         /\ Len(chunksOut) = Len(LongMapped(1))
         /\ \A i \in DOMAIN chunksOut :
              LET node == parse.nodes[LongMapped(1)[i]] IN
                /\ chunksOut[i].chunk_type # "Block"
                /\ chunksOut[i].start_byte = node.start_byte
                /\ chunksOut[i].end_byte = node.end_byte
                /\ chunksOut[i].name = node.name

\* A short function is dropped and the struct after it is emitted.
C21_Witness ==
  /\ chpc = "done" /\ outcome = "ok" /\ parse.ok /\ Len(parse.nodes) = 3
  /\ parse.nodes[2].kind = "function_item"
  /\ parse.nodes[2].end_byte - parse.nodes[2].start_byte = 10
  /\ Len(chunksOut) = 1
  /\ chunksOut[1].chunk_type = "Struct" /\ chunksOut[1].start_byte = 10
  /\ Len(chunksOut[1].content) = 50

\* The contents of the chunks cs, one after the other.
RECURSIVE ConcatContents(_)
ConcatContents(cs) ==
  IF cs = <<>> THEN <<>> ELSE Head(cs).content \o ConcatContents(Tail(cs))

\* C22: with overlap_ratio = 0 the blocks of the sliding window are adjacent,
\* the first starts at byte 0, and their contents concatenated are the input
\* up to the end_byte of the last block.
C22_ZeroOverlapBlocksTile ==
  (/\ chpc = "done" /\ outcome = "ok" /\ chunker.overlap_ratio = RZero
   /\ chunksOut # <<>> /\ chunksOut[1].chunk_type = "Block") =>
    /\ chunksOut[1].start_byte = 0
    /\ \A i \in 1..(Len(chunksOut) - 1) :
         chunksOut[i + 1].start_byte = chunksOut[i].end_byte
    /\ ConcatContents(chunksOut)
         = SubSeq(text, 1, chunksOut[Len(chunksOut)].end_byte)

\* Two blocks of 8 bytes over 17 bytes: the last byte is left out.
C22_Witness ==
  /\ chpc = "done" /\ outcome = "ok" /\ chunker.overlap_ratio = RZero
  /\ Len(text) = 17 /\ Len(chunksOut) = 2
  /\ chunksOut[2].chunk_type = "Block" /\ chunksOut[2].end_byte = 16

\* ================================================ claims on failure handling
\* The chunks of the files from the i-th on that chunk_file returned, in order.
RECURSIVE ChunksFrom(_)
ChunksFrom(i) ==
  IF i > Len(sfiles) THEN <<>>
  ELSE (IF sfiles[i].chunked = "ok"
          THEN [j \in 1..sfiles[i].n |-> 100 * i + j] ELSE <<>>)
       \o ChunksFrom(i + 1)

\* C23: a file that fails does not abort the run.  Semantic indexing: no
\* file makes index_files stop short, and once the first loop is over
\* all_chunks holds the chunks of every file that could be chunked.
C23_PerFileFailureNeverAborts ==
  /\ spc # "panic"
  /\ spc \notin {"idle", "chunk"} => all_chunks = ChunksFrom(1)

\* C23, lexical walks: a file that is not UTF-8 gives no document, no count
\* and no cache entry, and the files before and after it are indexed and
\* committed.
C23_LexicalWalkSkipsUnreadable ==
  /\ \A i \in DOMAIN writer : writer[i].file_path \notin NonUtf8
  /\ \A i \in DOMAIN idx : idx[i].file_path \notin NonUtf8
  /\ pc \in {"walk", "record"} =>
       /\ stats.files_indexed = Len(writer)
       /\ mode = "incr" =>
            \A p \in NonUtf8 :
              /\ p \in DOMAIN files <=> p \in DOMAIN cacheDisk
              /\ p \in DOMAIN files => files[p] = cacheDisk[p]
       /\ (pc = "walk" /\ changed = {}) =>
            \A j \in 1..(pos - 1) :
              LET p == PathSeq[j] IN
                (/\ fs[p].exists /\ Supported(p) /\ p \notin NonUtf8
                 /\ mode = "incr" => check_file(cacheDisk, p) # "Unchanged")
                  => \E i \in DOMAIN writer : writer[i].file_path = p
  /\ (pc = "idle" /\ runs > 0 /\ changed = {} /\ mode \in {"force", "init"}) =>
       {idx[i].file_path : i \in DOMAIN idx}
         = {p \in Paths : fs[p].exists /\ Supported(p) /\ p \notin NonUtf8}

\* index_files returned the error of embed_batch: it stopped at the head of
\* a batch, with the store open and the last add, if any, a success.
EmbedFailed ==
  /\ spc = "error" /\ store = "open" /\ sloop.next <= Len(all_chunks)
  /\ addlog # <<>> => addlog[Len(addlog)].ok

\* C24: when embed_batch fails for a batch, index_files ends with the error
\* and vectors.usearch and metadata.json are what they were before the
\* call, whatever earlier batches added to the store in memory.
C24_EmbedFailureLeavesDiskUntouched ==
  EmbedFailed =>
    /\ vectorsFile = before.vectorsFile
    /\ metadataFile = before.metadataFile

\* The second batch fails after the 32 vectors of the first were added.
C24_Witness ==
  /\ EmbedFailed /\ sloop.next = BATCH_SIZE + 1
  /\ Len(metadata) = Len(before.metadataFile.rows) + BATCH_SIZE
  /\ before.vectorsFile.present /\ index # before.vectorsFile.keys

\* self.metadata.len() when the store was opened for this call.
BaseKey ==
  IF before.metadataFile.state = "ok" THEN Len(before.metadataFile.rows) ELSE 0

\* C26: in a run of index_files that succeeds, the chunks are added in the
\* order files -> chunks of each file, none dropped or moved by the batches
\* of 32, and the k-th chunk (from 0) gets the key base + k, base being the
\* length of the store's metadata when the run began.
C26_KeysFollowEmissionOrder ==
  /\ \A k \in DOMAIN addlog :
       addlog[k].ok =>
         /\ addlog[k].chunk = ChunksFrom(1)[k]
         /\ addlog[k].key = BaseKey + (k - 1)
         /\ \A j \in 1..(k - 1) : addlog[j].key < addlog[k].key
  /\ (spc = "done" /\ all_chunks # <<>>) =>
       /\ Len(addlog) = Len(ChunksFrom(1))
       /\ \A k \in DOMAIN addlog :
            /\ addlog[k].ok
            /\ vectorsFile.keys[BaseKey + (k - 1)] = ChunksFrom(1)[k]
            /\ metadataFile.rows[BaseKey + k] = ChunksFrom(1)[k]

\* 33 chunks of the first file and 1 of the second, after an earlier index
\* of two chunks: two batches, keys 2..35.
C26_Witness ==
  /\ spc = "done" /\ Len(sfiles) = 2 /\ BaseKey = 2
  /\ sfiles[1].n = BATCH_SIZE + 1 /\ sfiles[2].n = 1
  /\ Len(addlog) = BATCH_SIZE + 2
  /\ addlog[BATCH_SIZE + 1].chunk = 100 + BATCH_SIZE + 1
  /\ addlog[BATCH_SIZE + 2].chunk = 201
  /\ addlog[BATCH_SIZE + 2].key = BATCH_SIZE + 3

Rescored(list) ==
  [i \in DOMAIN list |-> [list[i] EXCEPT !.score = Rat(2 * (Len(list) - i) + 9, 7)]]
\* The file_paths of a result list and their scores, in order.
Ranking(list) == [i \in DOMAIN list |-> <<list[i].file_path, list[i].score>>]
\* What a second call of rrf_fusion, on the rescored lists, can return.
SecondCall ==
  {Collect(rrf_fusion_scores(Rescored(lexical), Rescored(semantic)), order) :
     order \in Orders(FusedPaths)}

\* C27: with use_rrf, a call whose inputs differ from this one only in the
\* raw scores returns the same file_paths in the same order with the same
\* fused scores.
C27_RrfIgnoresRawScores ==
  (ranked = "done" /\ config.use_rrf) =>
    \A other \in SecondCall : Ranking(other) = Ranking(fused)

\* C27, without the order among equal fused scores: some run of the second
\* call returns what this one returned.
C27_RrfSameUpToTies ==
  (ranked = "done" /\ config.use_rrf) =>
    \E other \in SecondCall : Ranking(other) = Ranking(fused)

\* =============================================== more claims on the FileCache
\* The mtime of p can be read as seconds since the epoch.
Readable(p) == fs[p].exists /\ fs[p].mtime >= 0
\* The last call was a check_file, made in this step.
JustChecked ==
  /\ calls' # calls /\ calls' # <<>>
  /\ calls'[Len(calls')].op = "check"

\* C28: check_file answers New when the mtime cannot be read or the path
\* has no entry, Modified when the mtime in seconds is greater than the
\* stored one, Unchanged otherwise; it leaves the cache as it is, and so
\* does update_file when the mtime cannot be read.
C28_CheckFileClassifies ==
  /\ [](\A i \in DOMAIN calls :
         LET c == calls[i] IN
           /\ c.op = "check" =>
                c.result = IF ~Readable(c.path) \/ ~c.known THEN "New"
                           ELSE IF fs[c.path].mtime > c.stored THEN "Modified"
                           ELSE "Unchanged"
           /\ (i = Len(calls) /\ (c.op = "check" \/ ~Readable(c.path))) =>
                /\ c.path \in DOMAIN files <=> c.known
                /\ c.known => files[c.path] = c.stored)
  /\ [][JustChecked => files' = files]_vars

\* With b.py older than its entry and a.rs known but set before the epoch:
\* update_file(a.rs), then check_file(b.py) = Unchanged and
\* check_file(a.rs) = New.
C28_Witness ==
  /\ Len(calls) = 3
  /\ calls[1].op = "update" /\ calls[1].known /\ ~Readable(calls[1].path)
  /\ calls[2].op = "check" /\ calls[2].result = "Unchanged"
  /\ Readable(calls[2].path) /\ fs[calls[2].path].mtime < calls[2].stored
  /\ calls[3].op = "check" /\ calls[3].result = "New" /\ calls[3].known
  /\ files[calls[3].path] = calls[1].stored

\* ======================================== claims on failed incremental runs
\* C29: file_cache.json changes only after a commit that succeeded; an
\* incremental run that fails in add_document or commit leaves the cache
\* file and the committed index as they were, and every file it had read
\* is New or Modified for the cache the next run loads.
C29_CacheSavedOnlyAfterCommit ==
  /\ [][cacheDisk' # cacheDisk => (pc \in {"save", "cachewalk"} /\ writer = <<>>)]_vars
  /\ [][mode' = "failed" => (cacheDisk' = cacheDisk /\ idx' = idx)]_vars
  /\ []((mode = "failed" /\ pc = "idle") =>
          \A p \in stats.S : check_file(cacheDisk, p) \in {"New", "Modified"})

\* A commit failed after two files were read and entered in the cache in
\* memory; the cache file does not have them.
C29_Witness ==
  /\ mode = "failed" /\ pc = "idle" /\ stats.S = {"a.rs", "b.py"}
  /\ stats.files_indexed = 2
  /\ "a.rs" \in DOMAIN files /\ "a.rs" \notin DOMAIN cacheDisk
  /\ idx = <<>>

\* ============================================ more claims on the chunker
\* C30: the blocks of the sliding window are, for n = 0, 1, 2, ..., of type
\* Block, named block_<n>, over the bytes [n * step, min(n * step +
\* max_chunk_size, len)) with step = max_chunk_size - floor(max_chunk_size *
\* overlap_ratio); block n + 1 is there only if len - (n + 1) * step is at
\* least max_chunk_size / 4, so every block but the first is at least that
\* long, and the blocks stop where that remainder is smaller.
C30_SlidingWindowBlocks ==
  (/\ chpc = "done" /\ outcome = "ok"
   /\ chunksOut # <<>> /\ chunksOut[1].chunk_type = "Block") =>
    LET max == chunker.max_chunk_size
        step == max - (max * chunker.overlap_ratio.n) \div chunker.overlap_ratio.d
        len == Len(text)
        last == Len(chunksOut)
    IN /\ \A i \in DOMAIN chunksOut :
            LET c == chunksOut[i]
                n == i - 1
            IN /\ c.chunk_type = "Block" /\ c.name = <<"block", n>>
               /\ c.start_byte = n * step
               /\ c.end_byte = IF n * step + max <= len THEN n * step + max ELSE len
               /\ n > 0 => /\ len - n * step >= max \div 4
                           /\ c.end_byte - c.start_byte >= max \div 4
       /\ last * step >= len \/ len - last * step < max \div 4

\* 52 bytes in windows of 20 with step 16: three blocks, and 4 bytes left
\* that are less than a quarter window.
C30_Witness ==
  /\ chpc = "done" /\ outcome = "ok" /\ Len(text) = 52
  /\ chunker.max_chunk_size = 20 /\ Len(chunksOut) = 3
  /\ chunksOut[3].name = <<"block", 2>>
  /\ chunksOut[3].start_byte = 32 /\ chunksOut[3].end_byte = 52

\* C31: the arithmetic of the sliding window never goes below zero: in a
\* build that panics on overflow, a call on text without multi-byte
\* characters (no slice can fail) returns.
C31_SlidingWindowNoUnderflow ==
  (/\ chpc = "done" /\ overflow_checks
   /\ \A j \in DOMAIN text : text[j] \notin {"lead", "cont"}) =>
    outcome = "ok"

\* C32: the chunks of one chunk_file call are all of type Block or none is:
\* they are blocks exactly when the language is Unknown, the parse failed
\* or the tree gave no chunk of 50 bytes or more.
C32_ChunkKindsNeverMixed ==
  (chpc = "done" /\ outcome = "ok" /\ chunksOut # <<>>) =>
    LET fallback == \/ from_path(ChunkExt[file_path]) = "Unknown"
                    \/ ~parse.ok
                    \/ LongMapped(1) = <<>>
    IN IF fallback
         THEN \A i \in DOMAIN chunksOut : chunksOut[i].chunk_type = "Block"
         ELSE \A i \in DOMAIN chunksOut : chunksOut[i].chunk_type # "Block"

\* A parsed Rust file longer than one window whose tree gives a chunk: the
\* call returns that chunk and none of the blocks the window would cut.
C32_Witness ==
  /\ chpc = "done" /\ outcome = "ok" /\ parse.ok /\ LongMapped(1) # <<>>
  /\ file_path = "lib.rs" /\ Len(text) > chunker.max_chunk_size
  /\ chunksOut # <<>>
  /\ \A i \in DOMAIN chunksOut : chunksOut[i].chunk_type # "Block"

\* The events of Events that pass both matches of the Ok(event) arm.
AcceptedEvents == {e \in Events : Accepted(e)}

\* The event e waits in the channel.
Queued(e) == \E i \in DOMAIN chan : chan[i] = e

\* C33: once the events stop, every indexable event is followed by a reindex
\* that starts after the event was received: a path in pending_files leads
\* to a reindex with that path pending, and so does an event that waits in
\* the channel, also one sent during a reindex.  A reindex leaves the
\* channel as it is, and pending_files loses paths only when a reindex
\* returns.
C33_EveryEventReindexed ==
  /\ \A e \in AcceptedEvents :
       (e.path.name \in pending_files \/ Queued(e))
         ~> (wpc = "reindex" /\ e.path.name \in pending_files)
  /\ \A e \in AcceptedEvents :
       (wpc = "reindex" /\ Queued(e))
         ~> (wpc = "recv" /\ e.path.name \in pending_files)
  /\ [][wpc = "reindex" =>
          /\ Len(chan') >= Len(chan)
          /\ SubSeq(chan', 1, Len(chan)) = chan]_vars
  /\ [][~(pending_files \subseteq pending_files') =>
          (wpc = "reindex" /\ wpc' = "recv")]_vars

\* An indexable event arrives while a reindex runs, for a path that was not
\* pending when the reindex began.
C33_Witness ==
  /\ wpc = "reindex" /\ chan # <<>> /\ Accepted(Head(chan))
  /\ Head(chan).path.name \notin pending_files

\* C36: a hybrid search that succeeds prints at most `limit` results, also
\* when it falls back to the lexical results alone.
C36_SearchPrintsAtMostLimit ==
  (hsearch.pc = "done" /\ hsearch.exit = "ok") => Len(hsearch.printed) <= limit

\* C34: a second `index --semantic` run over the same files leaves as many
\* vectors and metadata rows on disk as the first run left.
C34_SecondRunKeepsCounts ==
  (runs >= 1 /\ spc = "done") =>
    /\ Len(metadataFile.rows) = Len(before.metadataFile.rows)
    /\ Cardinality(DOMAIN vectorsFile.keys)
         = Cardinality(DOMAIN before.vectorsFile.keys)

\* C35: a source file that both searches return has one file_path string in
\* the two indexes, and the fused list holds at most one result for it.
C35_SamePathInBothIndexes ==
  ranked = "done" =>
    \A f \in SourceFiles :
      LET lex == relative_path(WalkEntry(f))
          sem == file_path_str(WalkEntry(f))
      IN (/\ \E i \in DOMAIN lexical : lexical[i].file_path = lex
          /\ \E j \in DOMAIN semantic : semantic[j].file_path = sem) =>
           /\ lex = sem
           /\ Cardinality({k \in DOMAIN fused :
                              fused[k].file_path \in {lex, sem}}) <= 1

\* C37: as long as no file was written (the clock still shows second 1), a
\* file with a readable mtime has at most one document in the committed
\* index, whatever init, index and index --force runs were made.
C37_UnchangedFileHasOneDocument ==
  now = 1 =>
    \A p \in Paths : fs[p] = Present => Cardinality(DocsOf(p)) <= 1

\* C38: whenever no command runs, every existing readable supported file
\* that the persisted cache classifies as Unchanged has a document in the
\* committed index.
C38_UnchangedInCacheIsInIndex ==
  pc = "idle" =>
    \A p \in Utf8Files :
      check_file(cacheDisk, p) = "Unchanged" => DocsOf(p) # {}

\* C39: when an incremental run has ended and no file has changed since it
\* started, a file that is not in the directory has no document in the
\* committed index and no entry in the persisted cache.
C39_DeletedFileLeavesIndexAndCache ==
  (Settled /\ mode = "incr") =>
    \A p \in Paths :
      ~fs[p].exists => (DocsOf(p) = {} /\ p \notin DOMAIN cacheDisk)

====
